---- MODULE Spec2Model ----
(***************************************************************************)
(* A model of the shell-explorer CLI:                                      *)
(*   - cleaner.rs   : clean_node_modules and its interactive selection     *)
(*   - bookmarks.rs : remove_duplicates and remove_dead_links              *)
(*   - organizer.rs : organize_files and its interactive selection         *)
(*   - packages.rs  : Version::parse and Version::is_greater_than          *)
(*   - bookmarks.rs : the classifier BookmarkCategory::from_url_and_title  *)
(*   - the threads of the parallel sections of cleaner.rs and bookmarks.rs *)
(* Each subsystem has its own specification (SpecClean, SpecBookmarks,     *)
(* SpecOrganize, SpecVersions, SpecClassifier, SpecParallel); the          *)
(* variables of the other subsystems stay at their initial values.         *)
(***************************************************************************)
EXTENDS Integers, Sequences, FiniteSets, TLC

(***************************************************************************)
(* Bounds of the model.                                                    *)
(***************************************************************************)
\* longest directory path of the cleaner's tree, the search path included
MaxDepth == 3
\* number of directories of the cleaner's tree, the search path included
MaxDirs == 4
\* bytes of regular files held directly by one directory
MaxBytes == 1
\* number of directories whose read_dir fails
MaxUnreadable == 1

(***************************************************************************)
(* Generic helpers on sequences.                                           *)
(***************************************************************************)
Last(s) == s[Len(s)]

IsPrefix(p, q) == Len(p) <= Len(q) /\ SubSeq(q, 1, Len(p)) = p

Range(s) == {s[i] : i \in DOMAIN s}

(***************************************************************************)
(*                         cleaner.rs                                      *)
(***************************************************************************)

\* directory names that occur in the modelled trees
Names == {"node_modules", "target", "app"}

\* the order in which fs::read_dir lists the children of a directory
DirOrder == <<"app", "node_modules", "target">>

\* cleaner.rs:69  matches!(dir_name, ".git" | "target" | ".cache" | ".Trash")
SkipNames == {".git", "target", ".cache", ".Trash"}

\* the key events event::read() can deliver to the selection loop; "c" is a
\* plain c, "CtrlC" is c with the CONTROL modifier, "other" is any other event
Keys == {"Up", "Down", "k", "j", "Space", "a", "n", "Enter", "q", "Esc", "CtrlC", "c", "other"}

VARIABLES
    root,               \* the search path (a sequence of names)
    dirs,               \* the directories that exist (paths)
    bytes,              \* bytes of the regular files directly in each directory
    unreadable,         \* directories whose read_dir fails
    pc,                 \* where the cleaner is
    dry_run,            \* clean_node_modules arguments
    verbose,
    interactive,
    entries,            \* Vec<NodeModuleEntry> of interactive_clean
    cursor_pos,         \* run_interactive_selection
    entries_arc,        \* delete_with_live_updates: (path, size, status)
    node_modules_dirs,  \* delete_all_node_modules
    results,            \* delete_all_node_modules: one CleanedEntry per path
    ret,                \* the Vec<CleanedEntry> clean_node_modules returns
    dirs0,              \* history: the directories when clean_node_modules was called
    exit_key,           \* history: the key that left the selection loop
    selAtExit,          \* history: the paths selected when that key was pressed
    attempted           \* history: the paths remove_directory was called on

cleanVars == <<root, dirs, bytes, unreadable, pc, dry_run, verbose, interactive,
               entries, cursor_pos, entries_arc, node_modules_dirs, results, ret,
               dirs0, exit_key, selAtExit, attempted>>

\* bookmarks.rs
VARIABLES
    bmfile,             \* the content of the Chrome Bookmarks file (the parsed JSON)
    next_id,            \* the id Chrome gives to the next node
    backup,             \* the content of "<path>.backup", or "none"
    bpc,                \* where remove_duplicates / remove_dead_links is
    op,                 \* the function that was called
    b_dry_run,          \* its arguments
    b_interactive,
    json,               \* the copy of the file the function read
    dead_links,         \* the DeadLinkEntry list find_dead_links returned
    ids_to_remove,      \* the ids the function collected
    bret,               \* the Result<usize> the function returns
    bmfile0,            \* history: the file when the function was called
    dead_urls,          \* history: the URLs check_url_status found dead
    b_key,              \* history: the last key read at the [y/N] prompt
    written,            \* history: number of fs::write calls on the file
    b_err               \* history: the call that failed ("copy", "write")

bmVars == <<bmfile, next_id, backup, bpc, op, b_dry_run, b_interactive, json,
            dead_links, ids_to_remove, bret, bmfile0, dead_urls, b_key, written, b_err>>

\* organizer.rs
VARIABLES
    ofs,                \* the directory organize_files works on
    opc,                \* where organize_files is
    o_dry_run,          \* its arguments
    o_verbose,
    o_interactive,
    files,              \* Vec<FileToOrganize>
    selected_idx,       \* interactive_organize: the cursor
    o_queue,            \* the files the for loop still has to process
    o_results,          \* Vec<OrganizeEntry> built by the for loop
    o_ret,              \* what organize_files returns
    ofs0,               \* history: the directory when organize_files was called
    o_key               \* history: the key that left the selection loop

orgVars == <<ofs, opc, o_dry_run, o_verbose, o_interactive, files, selected_idx,
             o_queue, o_results, o_ret, ofs0, o_key>>

\* packages.rs
VARIABLES
    v_str,              \* the version strings handed to Version::parse
    v_parsed,           \* what Version::parse returned for each of them
    v_gt,               \* is_greater_than of every two parsed versions
    vpc                 \* where the comparison of the versions is

pkgVars == <<v_str, v_parsed, v_gt, vpc>>

\* bookmarks.rs, the classifier
VARIABLES
    c_url,              \* the url and the title handed to from_url_and_title
    c_title,
    c_category,         \* the category returned for them, in each spelling of their letters
    cpc                 \* where the classification is

catVars == <<c_url, c_title, c_category, cpc>>

\* the state in which the classifier has not been called
IdleClassifier ==
    c_url = <<>> /\ c_title = <<>> /\ c_category = <<>> /\ cpc = "idle"

\* the parallel sections of cleaner.rs and bookmarks.rs
VARIABLES
    section,            \* the function whose parallel section runs
    queue,              \* the items of the par_iter no worker has taken yet
    shared,             \* the values of the objects behind an Arc
    holder,             \* the thread that holds the mutex, or "none"
    tpc,                \* where each thread is in its program
    w_item,             \* the item each worker processes
    w_ok,               \* the result of its remove_directory or check_url_status
    w_current,          \* what its fetch_add on checked returned, plus one
    accesses            \* history: the reads and writes of the shared objects

parVars == <<section, queue, shared, holder, tpc, w_item, w_ok, w_current, accesses>>

\* the state in which no parallel section has been started
IdleParallel ==
    /\ section = "none" /\ queue = {} /\ shared = <<>> /\ holder = "none" /\ tpc = <<>>
    /\ w_item = <<>> /\ w_ok = <<>> /\ w_current = <<>> /\ accesses = {}

vars == <<cleanVars, bmVars, orgVars, pkgVars, catVars, parVars>>

\* the state in which packages.rs has not been started
IdlePackages ==
    v_str = <<>> /\ v_parsed = <<>> /\ v_gt = <<>> /\ vpc = "idle"

\* the states in which bookmarks.rs and organizer.rs have not been started
IdleBookmarks ==
    /\ bmfile = <<>> /\ next_id = 0 /\ backup = <<>> /\ bpc = "idle" /\ op = "none"
    /\ b_dry_run = FALSE /\ b_interactive = FALSE /\ json = <<>> /\ dead_links = <<>>
    /\ ids_to_remove = {} /\ bret = <<>> /\ bmfile0 = <<>> /\ dead_urls = {}
    /\ b_key = "none" /\ written = 0 /\ b_err = "none"

IdleOrganize ==
    /\ ofs = [files |-> {}, dirs |-> {}, moved |-> {}] /\ opc = "idle" /\ o_dry_run = FALSE /\ o_verbose = FALSE
    /\ o_interactive = FALSE /\ files = <<>> /\ selected_idx = 0 /\ o_queue = <<>>
    /\ o_results = <<>> /\ o_ret = <<>> /\ ofs0 = <<>> /\ o_key = "none"

\* the directories of the tree at and below p
Subtree(p) == {q \in dirs : IsPrefix(p, q)}

(***************************************************************************)
(* find_node_modules: depth-first walk that collects the directories named *)
(* node_modules without descending into them, and skips SkipNames.         *)
(***************************************************************************)
RECURSIVE find_node_modules_recursive(_)
RECURSIVE scan_entries(_, _)

\* scan_entries without the recursive descent into sub-directories
scan_entries_flat(dir, i) ==
    IF i > Len(DirOrder) THEN <<>>
    ELSE LET path == Append(dir, DirOrder[i])
             here == IF path \in dirs /\ DirOrder[i] = "node_modules"
                     THEN <<path>>
                     ELSE <<>>
         IN  here \o scan_entries(dir, i + 1)

\* the for loop of find_node_modules_recursive over the entries i.. of dir
scan_entries(dir, i) ==
    IF i > Len(DirOrder) THEN <<>>
    ELSE LET path == Append(dir, DirOrder[i])
             here == IF path \in dirs
                     THEN IF DirOrder[i] = "node_modules"
                          THEN <<path>>
                          ELSE find_node_modules_recursive(path)
                     ELSE <<>>
         IN  here \o scan_entries(dir, i + 1)

\* find_node_modules_recursive that also walks the node_modules directory it
\* has collected
find_node_modules_recursive_into(dir) ==
    IF dir \notin dirs THEN <<>>
    ELSE IF Last(dir) \in SkipNames THEN <<>>
    ELSE IF dir \in unreadable THEN <<>>
    ELSE scan_entries(dir, 1) \o scan_entries(Append(dir, "node_modules"), 1)

\* cleaner.rs:63-93 find_node_modules_recursive
find_node_modules_recursive(dir) ==
    IF dir \notin dirs THEN <<>>
    ELSE IF Last(dir) \in SkipNames THEN <<>>
    ELSE IF dir \in unreadable THEN <<>>
    ELSE scan_entries(dir, 1)

find_node_modules(r) == find_node_modules_recursive(r)

(***************************************************************************)
(* calculate_dir_size: the bytes of all regular files below path; a        *)
(* directory that cannot be read counts 0.                                 *)
(***************************************************************************)
RECURSIVE calculate_dir_size_recursive(_)
RECURSIVE sum_entries(_, _)

sum_entries(path, i) ==
    IF i > Len(DirOrder) THEN 0
    ELSE LET child == Append(path, DirOrder[i])
         IN  (IF child \in dirs THEN calculate_dir_size_recursive(child) ELSE 0)
             + sum_entries(path, i + 1)

calculate_dir_size_recursive(path) ==
    IF path \in unreadable THEN 0
    ELSE bytes[path] + sum_entries(path, 1)

calculate_dir_size(path) ==
    IF path \notin dirs THEN 0
    ELSE calculate_dir_size_recursive(path)

\* list_node_modules: one entry per directory found, unselected, with its size
list_node_modules ==
    LET found == find_node_modules(root)
    IN  [i \in 1..Len(found) |->
            [path |-> found[i], size |-> calculate_dir_size(found[i]),
             selected |-> FALSE, status |-> "Found"]]

\* entries.sort_by(|a, b| b.size.cmp(&a.size)): stable, largest first
RECURSIVE insert_by_size(_, _)
insert_by_size(e, s) ==
    IF s = <<>> THEN <<e>>
    ELSE IF Head(s).size >= e.size THEN <<Head(s)>> \o insert_by_size(e, Tail(s))
    ELSE <<e>> \o s

RECURSIVE sort_by_size(_)
sort_by_size(s) ==
    IF s = <<>> THEN <<>>
    ELSE insert_by_size(Last(s), sort_by_size(SubSeq(s, 1, Len(s) - 1)))

(***************************************************************************)
(* The environment builds the tree before the tool is started.             *)
(***************************************************************************)
Mkdir(p, n) ==
    /\ pc = "setup"
    /\ p \in dirs
    /\ Len(p) < MaxDepth
    /\ Cardinality(dirs) < MaxDirs
    /\ Append(p, n) \notin dirs
    /\ dirs' = dirs \cup {Append(p, n)}
    /\ bytes' = [q \in dirs' |-> IF q \in dirs THEN bytes[q] ELSE 0]
    /\ UNCHANGED <<bmVars, orgVars, pkgVars, catVars, parVars, root, unreadable, pc, dry_run, verbose, interactive, entries,
                   cursor_pos, entries_arc, node_modules_dirs, results, ret,
                   dirs0, exit_key, selAtExit, attempted>>

WriteFile(p) ==
    /\ pc = "setup"
    /\ p \in dirs
    /\ bytes[p] < MaxBytes
    /\ bytes' = [bytes EXCEPT ![p] = @ + 1]
    /\ UNCHANGED <<bmVars, orgVars, pkgVars, catVars, parVars, root, dirs, unreadable, pc, dry_run, verbose, interactive, entries,
                   cursor_pos, entries_arc, node_modules_dirs, results, ret,
                   dirs0, exit_key, selAtExit, attempted>>

Chmod(p) ==
    /\ pc = "setup"
    /\ p \in dirs
    /\ p \notin unreadable
    /\ Cardinality(unreadable) < MaxUnreadable
    /\ unreadable' = unreadable \cup {p}
    /\ UNCHANGED <<bmVars, orgVars, pkgVars, catVars, parVars, root, dirs, bytes, pc, dry_run, verbose, interactive, entries,
                   cursor_pos, entries_arc, node_modules_dirs, results, ret,
                   dirs0, exit_key, selAtExit, attempted>>

(***************************************************************************)
(* clean_node_modules, up to the point where it waits for a key or starts  *)
(* its parallel deletion.                                                  *)
(***************************************************************************)
\* the dry-run branch: one "Would remove" entry per directory found
would_remove(es) ==
    [i \in 1..Len(es) |-> [path |-> es[i].path, size |-> es[i].size, status |-> "Would remove"]]

clean_node_modules(d, v, i) ==
    /\ pc = "setup"
    /\ dry_run' = d /\ verbose' = v /\ interactive' = i
    /\ dirs0' = dirs
    /\ IF i
       THEN \* interactive_clean
            LET es == list_node_modules
            IN  IF es = <<>>
                THEN /\ ret' = <<>>
                     /\ pc' = "done"
                     /\ UNCHANGED entries
                ELSE /\ entries' = sort_by_size(es)
                     /\ pc' = "anykey"
                     /\ UNCHANGED ret
       ELSE IF d
       THEN LET es == list_node_modules
            IN  /\ ret' = IF es = <<>> THEN <<>> ELSE would_remove(es)
                /\ pc' = "done"
                /\ UNCHANGED entries
       ELSE \* delete_all_node_modules
            LET found == find_node_modules(root)
            IN  /\ UNCHANGED entries
                /\ IF found = <<>>
                   THEN /\ ret' = <<>>
                        /\ pc' = "done"
                        /\ UNCHANGED <<node_modules_dirs, results>>
                   ELSE /\ node_modules_dirs' = found
                        /\ results' = [k \in 1..Len(found) |-> "pending"]
                        /\ pc' = "delete_all"
                        /\ UNCHANGED ret
    /\ IF i \/ d THEN UNCHANGED <<node_modules_dirs, results>> ELSE TRUE
    /\ UNCHANGED <<bmVars, orgVars, pkgVars, catVars, parVars, root, dirs, bytes, unreadable, cursor_pos, entries_arc,
                   exit_key, selAtExit, attempted>>

(***************************************************************************)
(* interactive_clean: "Press any key to continue...", then the selection   *)
(* loop of run_interactive_selection.                                      *)
(***************************************************************************)
press_any_key ==
    /\ pc = "anykey"
    /\ pc' = "select"
    /\ cursor_pos' = 0
    /\ UNCHANGED <<bmVars, orgVars, pkgVars, catVars, parVars, root, dirs, bytes, unreadable, dry_run, verbose, interactive, entries,
                   entries_arc, node_modules_dirs, results, ret,
                   dirs0, exit_key, selAtExit, attempted>>

set_all(es, b) == [i \in 1..Len(es) |-> [es[i] EXCEPT !.selected = b]]

\* selected_of without the filter on the selected flag
selected_of_unfiltered(es) == es

\* cleaner.rs:440 the entries whose selected flag is set, in order
selected_of(es) == SelectSeq(es, LAMBDA e : e.selected)

\* cleaner.rs:445-450 the shared list of delete_with_live_updates
to_entries_arc(es) ==
    [i \in 1..Len(es) |-> [path |-> es[i].path, size |-> es[i].size, status |-> "Found"]]

\* key_effect in which q, Esc and Ctrl-C leave the loop without deselecting
key_effect_quit_keeps(k, es, cur) ==
    CASE k \in {"Up", "k"} ->
            [entries |-> es, cursor |-> IF cur > 0 THEN cur - 1 ELSE cur, leave |-> FALSE]
      [] k \in {"Down", "j"} ->
            [entries |-> es, cursor |-> IF cur < Len(es) - 1 THEN cur + 1 ELSE cur, leave |-> FALSE]
      [] k = "Space" ->
            [entries |-> [es EXCEPT ![cur + 1].selected = ~@], cursor |-> cur, leave |-> FALSE]
      [] k = "a" ->
            [entries |-> set_all(es, TRUE), cursor |-> cur, leave |-> FALSE]
      [] k = "n" ->
            [entries |-> set_all(es, FALSE), cursor |-> cur, leave |-> FALSE]
      [] k \in {"Enter", "q", "Esc", "CtrlC"} ->
            [entries |-> es, cursor |-> cur, leave |-> TRUE]
      [] OTHER ->
            [entries |-> es, cursor |-> cur, leave |-> FALSE]

\* the entries after the key, and whether the key leaves the loop
key_effect(k, es, cur) ==
    CASE k \in {"Up", "k"} ->
            [entries |-> es, cursor |-> IF cur > 0 THEN cur - 1 ELSE cur, leave |-> FALSE]
      [] k \in {"Down", "j"} ->
            [entries |-> es, cursor |-> IF cur < Len(es) - 1 THEN cur + 1 ELSE cur, leave |-> FALSE]
      [] k = "Space" ->
            [entries |-> [es EXCEPT ![cur + 1].selected = ~@], cursor |-> cur, leave |-> FALSE]
      [] k = "a" ->
            [entries |-> set_all(es, TRUE), cursor |-> cur, leave |-> FALSE]
      [] k = "n" ->
            [entries |-> set_all(es, FALSE), cursor |-> cur, leave |-> FALSE]
      [] k = "Enter" ->
            [entries |-> es, cursor |-> cur, leave |-> TRUE]
      [] k \in {"q", "Esc"} ->
            [entries |-> set_all(es, FALSE), cursor |-> cur, leave |-> TRUE]
      [] k = "CtrlC" ->
            [entries |-> set_all(es, FALSE), cursor |-> cur, leave |-> TRUE]
      [] OTHER ->
            [entries |-> es, cursor |-> cur, leave |-> FALSE]

run_interactive_selection(k) ==
    /\ pc = "select"
    /\ LET eff == key_effect(k, entries, cursor_pos)
           selected_entries == selected_of(eff.entries)
       IN  /\ entries' = eff.entries
           /\ cursor_pos' = eff.cursor
           /\ IF ~eff.leave
              THEN UNCHANGED <<pc, ret, entries_arc, exit_key, selAtExit>>
              ELSE /\ exit_key' = k
                   /\ selAtExit' = {entries[i].path : i \in {j \in 1..Len(entries) : entries[j].selected}}
                   /\ IF selected_entries = <<>>
                      THEN /\ ret' = <<>>
                           /\ pc' = "done"
                           /\ UNCHANGED entries_arc
                      ELSE /\ entries_arc' = to_entries_arc(selected_entries)
                           /\ pc' = "deleting"
                           /\ UNCHANGED ret
    /\ UNCHANGED <<bmVars, orgVars, pkgVars, catVars, parVars, root, dirs, bytes, unreadable, dry_run, verbose, interactive,
                   node_modules_dirs, results, dirs0, attempted>>

(***************************************************************************)
(* remove_directory: fs::remove_dir_all either removes the whole subtree   *)
(* or fails and leaves the tree as it was.                                 *)
(***************************************************************************)
remove_directory(path, ok) ==
    /\ attempted' = attempted \cup {path}
    /\ IF ok
       THEN /\ dirs' = dirs \ Subtree(path)
            /\ bytes' = [q \in dirs' |-> bytes[q]]
            /\ unreadable' = unreadable \cap dirs'
       ELSE UNCHANGED <<dirs, bytes, unreadable>>

\* the outcomes fs::remove_dir_all can have on path
outcomes(path) == IF path \in dirs THEN BOOLEAN ELSE {FALSE}

(***************************************************************************)
(* delete_with_live_updates: one parallel worker per selected entry.       *)
(***************************************************************************)
delete_mark(i) ==
    /\ pc = "deleting"
    /\ i \in DOMAIN entries_arc
    /\ entries_arc[i].status = "Found"
    /\ entries_arc' = [entries_arc EXCEPT ![i].status = "Deleting"]
    /\ UNCHANGED <<bmVars, orgVars, pkgVars, catVars, parVars, root, dirs, bytes, unreadable, pc, dry_run, verbose, interactive, entries,
                   cursor_pos, node_modules_dirs, results, ret,
                   dirs0, exit_key, selAtExit, attempted>>

delete_remove(i, ok) ==
    /\ pc = "deleting"
    /\ i \in DOMAIN entries_arc
    /\ entries_arc[i].status = "Deleting"
    /\ ok \in outcomes(entries_arc[i].path)
    /\ remove_directory(entries_arc[i].path, ok)
    /\ entries_arc' = [entries_arc EXCEPT ![i].status = IF ok THEN "Deleted" ELSE "Error"]
    /\ UNCHANGED <<bmVars, orgVars, pkgVars, catVars, parVars, root, pc, dry_run, verbose, interactive, entries,
                   cursor_pos, node_modules_dirs, results, ret,
                   dirs0, exit_key, selAtExit>>

delete_with_live_updates_end ==
    /\ pc = "deleting"
    /\ \A i \in DOMAIN entries_arc : entries_arc[i].status \in {"Deleted", "Error"}
    /\ ret' = entries_arc
    /\ pc' = "done"
    /\ UNCHANGED <<bmVars, orgVars, pkgVars, catVars, parVars, root, dirs, bytes, unreadable, dry_run, verbose, interactive, entries,
                   cursor_pos, entries_arc, node_modules_dirs, results,
                   dirs0, exit_key, selAtExit, attempted>>

(***************************************************************************)
(* delete_all_node_modules: one parallel worker per directory found.       *)
(***************************************************************************)
delete_all_worker(i, ok) ==
    /\ pc = "delete_all"
    /\ i \in DOMAIN results
    /\ results[i] = "pending"
    /\ ok \in outcomes(node_modules_dirs[i])
    /\ remove_directory(node_modules_dirs[i], ok)
    /\ results' = [results EXCEPT ![i] = IF ok THEN "Deleted" ELSE "Error"]
    /\ UNCHANGED <<bmVars, orgVars, pkgVars, catVars, parVars, root, pc, dry_run, verbose, interactive, entries,
                   cursor_pos, entries_arc, node_modules_dirs, ret,
                   dirs0, exit_key, selAtExit>>

delete_all_node_modules_end ==
    /\ pc = "delete_all"
    /\ \A i \in DOMAIN results : results[i] # "pending"
    /\ ret' = [i \in DOMAIN results |->
                  [path |-> node_modules_dirs[i], size |-> "-", status |-> results[i]]]
    /\ pc' = "done"
    /\ UNCHANGED <<bmVars, orgVars, pkgVars, catVars, parVars, root, dirs, bytes, unreadable, dry_run, verbose, interactive, entries,
                   cursor_pos, entries_arc, node_modules_dirs, results,
                   dirs0, exit_key, selAtExit, attempted>>

InitClean ==
    /\ root \in {<<n>> : n \in Names}
    /\ dirs = {root}
    /\ bytes = [q \in {root} |-> 0]
    /\ unreadable = {}
    /\ pc = "setup"
    /\ dry_run = FALSE /\ verbose = FALSE /\ interactive = FALSE
    /\ entries = <<>>
    /\ cursor_pos = 0
    /\ entries_arc = <<>>
    /\ node_modules_dirs = <<>>
    /\ results = <<>>
    /\ ret = "none"
    /\ dirs0 = {}
    /\ exit_key = "none"
    /\ selAtExit = {}
    /\ attempted = {}
    /\ IdleBookmarks
    /\ IdleOrganize
    /\ IdlePackages
    /\ IdleClassifier
    /\ IdleParallel

NextClean ==
    \/ \E p \in dirs, n \in Names : Mkdir(p, n)
    \/ \E p \in dirs : WriteFile(p)
    \/ \E p \in dirs : Chmod(p)
    \/ \E d \in BOOLEAN, v \in BOOLEAN, i \in BOOLEAN : clean_node_modules(d, v, i)
    \/ press_any_key
    \/ \E k \in Keys : run_interactive_selection(k)
    \/ \E i \in DOMAIN entries_arc : delete_mark(i)
    \/ \E i \in DOMAIN entries_arc, ok \in BOOLEAN : delete_remove(i, ok)
    \/ delete_with_live_updates_end
    \/ \E i \in DOMAIN results, ok \in BOOLEAN : delete_all_worker(i, ok)
    \/ delete_all_node_modules_end

SpecClean == InitClean /\ [][NextClean]_vars

(***************************************************************************)
(* Claims about the cleaner, checked under SpecClean.                      *)
(***************************************************************************)
QuitKeys == {"q", "Esc", "CtrlC"}

\* the paths listed in the interactive selection
entry_paths == {entries[i].path : i \in DOMAIN entries}

\* every removal the finished run attempted succeeded
all_removals_succeeded == \A i \in DOMAIN ret : ret[i].status = "Deleted"

\* the directories named node_modules that exist below the search path
remaining_node_modules == {p \in dirs : p # root /\ Last(p) = "node_modules"}

\* C1: with dry_run = true clean_node_modules removes no directory, whatever
\* the interactive and verbose flags and whatever keys are pressed.
C1_DryRunRemovesNothing ==
    (pc # "setup" /\ dry_run) => dirs = dirs0

\* C2: when the selection loop is left with q, Esc or Ctrl-C, nothing is
\* deleted and the result is empty, whatever had been selected before.
C2_QuitDeletesNothing ==
    exit_key \in QuitKeys =>
        /\ pc = "done"
        /\ ret = <<>>
        /\ attempted = {}
        /\ dirs = dirs0

\* the loop was left with a quit key while an entry was selected
C2_Witness ==
    /\ exit_key \in QuitKeys
    /\ selAtExit # {}
    /\ pc = "done"

\* C3: when the selection loop is left with Enter, deletion is attempted on
\* exactly the entries selected at that moment, and no unselected directory
\* is removed.
C3_EnterDeletesExactlySelected ==
    exit_key = "Enter" =>
        /\ attempted \subseteq selAtExit
        /\ (pc = "done" => attempted = selAtExit)
        /\ \A p \in entry_paths \ selAtExit : p \in dirs
        /\ \A q \in dirs0 \ dirs : \E p \in selAtExit : IsPrefix(p, q)

\* Enter was pressed with some, but not all, entries selected and the
\* deletion has run and removed something
C3_Witness ==
    /\ exit_key = "Enter"
    /\ pc = "done"
    /\ selAtExit # {}
    /\ entry_paths \ selAtExit # {}
    /\ dirs # dirs0

inside_unscanned(p) ==
    \E k \in 1..(Len(p) - 1) :
        \/ p[k] \in SkipNames
        \/ SubSeq(p, 1, k) \in unreadable

MaxBookmarks == 3
\* number of folders in the file besides the roots
MaxFolders == 1
\* number of bookmarks of a file that find_dead_links is run on
MaxChecked == 2

\* bookmarks.rs:2055 and 2320: the display width URLs are truncated to
UrlWidth == 50

\* strings are sequences of characters
Http == <<"h", "t", "t", "p", ":", "/", "/">>
Https == <<"h", "t", "t", "p", "s", ":", "/", "/">>
Dots == <<".", ".", ".">>

\* the URLs that occur in the modelled files: http://a, http://ab, file://a
UrlA == Http \o <<"a">>
UrlAB == Http \o <<"a", "b">>
UrlFile == <<"f", "i", "l", "e", ":", "/", "/", "a">>
Urls == {UrlA, UrlAB, UrlFile}

\* the roots of the file, in the order serde_json iterates over them
RootOrder == <<"bookmark_bar", "other">>

\* the keys event::read() can deliver at the [y/N] prompt
PromptKeys == {"y", "Y", "n", "N", "Esc", "Enter", "q", "other"}

RECURSIVE SumSeq(_)
SumSeq(s) == IF s = <<>> THEN 0 ELSE Head(s) + SumSeq(Tail(s))

RECURSIVE Concat(_)
Concat(ss) == IF ss = <<>> THEN <<>> ELSE Head(ss) \o Concat(Tail(ss))

\* str::starts_with, str::contains, str::trim_end_matches
starts_with(s, p) == IsPrefix(p, s)

contains(s, sub) ==
    \E i \in 0..(Len(s) - Len(sub)) : SubSeq(s, i + 1, i + Len(sub)) = sub

RECURSIVE trim_end_matches(_, _)
trim_end_matches(s, pat) ==
    IF Len(pat) > 0 /\ Len(s) >= Len(pat) /\ SubSeq(s, Len(s) - Len(pat) + 1, Len(s)) = pat
    THEN trim_end_matches(SubSeq(s, 1, Len(s) - Len(pat)), pat)
    ELSE s

\* bookmarks.rs:1921 truncate_string
truncate_string(s, max_len) ==
    IF Len(s) <= max_len THEN s
    ELSE SubSeq(s, 1, IF max_len >= 3 THEN max_len - 3 ELSE 0) \o Dots

(***************************************************************************)
(* parse_bookmarks: the bookmarks of the file in depth-first order.  Of a  *)
(* Bookmark only the id and the url are kept; name, date_added,            *)
(* folder_path and category are used for display only.                     *)
(***************************************************************************)
RECURSIVE parse_bookmark_node(_)
RECURSIVE parse_children(_, _)

parse_children(children, i) ==
    IF i > Len(children) THEN <<>>
    ELSE parse_bookmark_node(children[i]) \o parse_children(children, i + 1)

parse_bookmark_node(node) ==
    IF node.type = "url"
    THEN <<[id |-> node.id, url |-> node.url]>>
    ELSE IF node.type = "folder"
    THEN IF "children" \in DOMAIN node THEN parse_children(node.children, 1) ELSE <<>>
    ELSE <<>>

parse_bookmarks(file) ==
    Concat([i \in 1..Len(RootOrder) |-> parse_bookmark_node(file[RootOrder[i]])])

(***************************************************************************)
(* check_url_status and find_dead_links; dead is the set of URLs whose     *)
(* request fails.                                                          *)
(***************************************************************************)
check_url_status(url, dead) ==
    IF ~starts_with(url, Http) /\ ~starts_with(url, Https)
    THEN [is_alive |-> TRUE, status |-> "skipped"]
    ELSE IF url \in dead
    THEN [is_alive |-> FALSE, status |-> "error"]
    ELSE [is_alive |-> TRUE, status |-> "200 OK"]

find_dead_links(bookmarks, dead) ==
    LET is_dead(b) == LET r == check_url_status(b.url, dead)
                      IN  ~r.is_alive /\ r.status # "skipped"
        found == SelectSeq(bookmarks, is_dead)
    IN  [i \in 1..Len(found) |->
            [url |-> truncate_string(found[i].url, UrlWidth),
             status |-> check_url_status(found[i].url, dead).status]]

(***************************************************************************)
(* find_duplicate_groups and the ids remove_duplicates collects.           *)
(***************************************************************************)
find_duplicate_groups(bookmarks) ==
    LET urls == {bookmarks[i].url : i \in DOMAIN bookmarks}
        group(u) == [url |-> u, bookmarks |-> SelectSeq(bookmarks, LAMBDA b : b.url = u)]
    IN  {g \in {group(u) : u \in urls} : Len(g.bookmarks) > 1}

\* dup_ids_to_remove without the skip(1): the first occurrence is removed too
dup_ids_to_remove_all(groups) ==
    UNION {{g.bookmarks[i].id : i \in 1..Len(g.bookmarks)} : g \in groups}

\* bookmarks.rs:2144-2154: every bookmark of a group but the first
dup_ids_to_remove(groups) ==
    UNION {{g.bookmarks[i].id : i \in 2..Len(g.bookmarks)} : g \in groups}

\* bookmarks.rs:2312-2327: the ids remove_dead_links collects
dead_ids_to_remove(bookmarks, dls) ==
    LET dead_url_set == {dls[i].url : i \in DOMAIN dls}
        matches(b) ==
            \E dead_url \in dead_url_set :
                \/ contains(b.url, trim_end_matches(dead_url, Dots))
                \/ contains(dead_url, trim_end_matches(truncate_string(b.url, UrlWidth), Dots))
    IN  {bookmarks[i].id : i \in {j \in DOMAIN bookmarks : matches(bookmarks[j])}}

(***************************************************************************)
(* remove_bookmarks_by_id / remove_from_node: the JSON without the nodes   *)
(* whose id is in ids, and the number of nodes removed.                    *)
(***************************************************************************)
RECURSIVE remove_from_node(_, _)
remove_from_node(node, ids) ==
    IF "children" \notin DOMAIN node
    THEN [node |-> node, removed |-> 0]
    ELSE LET processed == [i \in DOMAIN node.children |-> remove_from_node(node.children[i], ids)]
             children_arr == [i \in DOMAIN node.children |-> processed[i].node]
             inner == SumSeq([i \in DOMAIN node.children |-> processed[i].removed])
             retained == SelectSeq(children_arr, LAMBDA child : child.id \notin ids)
         IN  [node |-> [node EXCEPT !.children = retained],
              removed |-> inner + (Len(children_arr) - Len(retained))]

remove_bookmarks_by_id(js, ids) ==
    LET r == [k \in DOMAIN js |-> remove_from_node(js[k], ids)]
    IN  [json |-> [k \in DOMAIN js |-> r[k].node],
         removed |-> SumSeq([i \in 1..Len(RootOrder) |-> r[RootOrder[i]].removed])]

(***************************************************************************)
(* Chrome builds the file before the tool is started: it appends bookmarks *)
(* and folders to a folder and gives every node a fresh id.                *)
(***************************************************************************)
\* the index paths of the folders at and below node
RECURSIVE folder_paths(_)
folder_paths(node) ==
    {<<>>} \cup
    UNION {{<<i>> \o p : p \in folder_paths(node.children[i])} :
              i \in {j \in DOMAIN node.children : node.children[j].type = "folder"}}

RECURSIVE insert_at(_, _, _)
insert_at(node, path, new) ==
    IF path = <<>>
    THEN [node EXCEPT !.children = Append(@, new)]
    ELSE [node EXCEPT !.children[Head(path)] = insert_at(@, Tail(path), new)]

n_bookmarks == Len(parse_bookmarks(bmfile))
n_folders == next_id - 3 - n_bookmarks

bm_frame == UNCHANGED <<cleanVars, orgVars, pkgVars, catVars, parVars>>

add_bookmark(r, path, u) ==
    /\ bpc = "setup"
    /\ n_bookmarks < MaxBookmarks
    /\ path \in folder_paths(bmfile[r])
    /\ bmfile' = [bmfile EXCEPT ![r] = insert_at(@, path, [type |-> "url", id |-> next_id, url |-> u])]
    /\ next_id' = next_id + 1
    /\ bm_frame
    /\ UNCHANGED <<backup, bpc, op, b_dry_run, b_interactive, json, dead_links,
                   ids_to_remove, bret, bmfile0, dead_urls, b_key, written, b_err>>

add_folder(r, path) ==
    /\ bpc = "setup"
    /\ n_folders < MaxFolders
    /\ path \in folder_paths(bmfile[r])
    /\ bmfile' = [bmfile EXCEPT ![r] = insert_at(@, path, [type |-> "folder", id |-> next_id, children |-> <<>>])]
    /\ next_id' = next_id + 1
    /\ bm_frame
    /\ UNCHANGED <<backup, bpc, op, b_dry_run, b_interactive, json, dead_links,
                   ids_to_remove, bret, bmfile0, dead_urls, b_key, written, b_err>>

(***************************************************************************)
(* remove_duplicates and remove_dead_links.  Both run in four steps: read  *)
(* the file and collect the ids, ask at the [y/N] prompt, stop on dry_run  *)
(* or copy the file to the backup, rewrite the file.                       *)
(***************************************************************************)
Ok(n) == [tag |-> "Ok", n |-> n]
Err == [tag |-> "Err", n |-> 0]
NoBackup == [exists |-> FALSE, content |-> <<>>]

\* the match on key_event.code at the prompt (bookmarks.rs:2192-2198, 2365-2371)
\* with Enter taken as a yes
confirm_enter_is_yes(k) ==
    CASE k \in {"y", "Y", "Enter"} -> "yes"
      [] k \in {"n", "N", "Esc"} -> "no"
      [] OTHER -> "wait"

\* the match on key_event.code at the prompt (bookmarks.rs:2192-2198, 2365-2371)
confirm(k) ==
    CASE k \in {"y", "Y"} -> "yes"
      [] k \in {"n", "N", "Esc", "Enter"} -> "no"
      [] OTHER -> "wait"

remove_duplicates(d, i) ==
    /\ bpc = "setup"
    /\ op' = "remove_duplicates" /\ b_dry_run' = d /\ b_interactive' = i
    /\ bmfile0' = bmfile
    /\ json' = bmfile
    /\ LET duplicate_groups == find_duplicate_groups(parse_bookmarks(bmfile))
       IN  IF duplicate_groups = {}
           THEN /\ bret' = Ok(0)
                /\ bpc' = "done"
                /\ UNCHANGED ids_to_remove
           ELSE /\ ids_to_remove' = dup_ids_to_remove(duplicate_groups)
                /\ bpc' = IF i THEN "prompt" ELSE "confirmed"
                /\ UNCHANGED bret
    /\ bm_frame
    /\ UNCHANGED <<bmfile, next_id, backup, dead_links, dead_urls, b_key, written, b_err>>

\* cli.rs:601-621 find_dead_links, then remove_dead_links on its result
remove_dead_links(dead, d, i) ==
    /\ bpc = "setup"
    /\ n_bookmarks <= MaxChecked
    /\ op' = "remove_dead_links" /\ b_dry_run' = d /\ b_interactive' = i
    /\ bmfile0' = bmfile
    /\ dead_urls' = dead
    /\ LET bookmarks == parse_bookmarks(bmfile)
           dls == find_dead_links(bookmarks, dead)
       IN  /\ dead_links' = dls
           /\ IF dls = <<>>
              THEN /\ bret' = Ok(0)
                   /\ bpc' = "done"
                   /\ UNCHANGED <<json, ids_to_remove>>
              ELSE /\ json' = bmfile
                   /\ ids_to_remove' = dead_ids_to_remove(bookmarks, dls)
                   /\ bpc' = IF i THEN "prompt" ELSE "confirmed"
                   /\ UNCHANGED bret
    /\ bm_frame
    /\ UNCHANGED <<bmfile, next_id, backup, b_key, written, b_err>>

\* the prompt loop: one key
prompt_step(k) ==
    /\ bpc = "prompt"
    /\ b_key' = k
    /\ CASE confirm(k) = "yes" -> bpc' = "confirmed" /\ UNCHANGED bret
         [] confirm(k) = "no" -> bpc' = "done" /\ bret' = Ok(0)
         [] OTHER -> UNCHANGED <<bpc, bret>>
    /\ bm_frame
    /\ UNCHANGED <<bmfile, next_id, backup, op, b_dry_run, b_interactive, json, dead_links,
                   ids_to_remove, bmfile0, dead_urls, written, b_err>>

\* backup_step without the dry_run test
backup_step_no_dry_run(copy_ok, would_remove_count) ==
    /\ bpc = "confirmed"
    /\ IF copy_ok
       THEN /\ backup' = [exists |-> TRUE, content |-> bmfile]
            /\ bpc' = "backedup"
            /\ UNCHANGED <<bret, b_err>>
       ELSE /\ bret' = Err
            /\ b_err' = "copy"
            /\ bpc' = "done"
            /\ UNCHANGED backup
    /\ bm_frame
    /\ UNCHANGED <<bmfile, next_id, op, b_dry_run, b_interactive, json, dead_links,
                   ids_to_remove, bmfile0, dead_urls, b_key, written>>

\* backup_step that goes on to the write when fs::copy failed
backup_step_unchecked(copy_ok, would_remove_count) ==
    /\ bpc = "confirmed"
    /\ IF b_dry_run
       THEN /\ bret' = Ok(would_remove_count)
            /\ bpc' = "done"
            /\ UNCHANGED <<backup, b_err>>
       ELSE /\ backup' = IF copy_ok THEN [exists |-> TRUE, content |-> bmfile] ELSE backup
            /\ b_err' = IF copy_ok THEN b_err ELSE "copy"
            /\ bpc' = "backedup"
            /\ UNCHANGED bret
    /\ bm_frame
    /\ UNCHANGED <<bmfile, next_id, op, b_dry_run, b_interactive, json, dead_links,
                   ids_to_remove, bmfile0, dead_urls, b_key, written>>

\* the dry_run return, else fs::copy(&path, &backup_path)?
backup_step(copy_ok, would_remove_count) ==
    /\ bpc = "confirmed"
    /\ IF b_dry_run
       THEN /\ bret' = Ok(would_remove_count)
            /\ bpc' = "done"
            /\ UNCHANGED <<backup, b_err>>
       ELSE IF copy_ok
       THEN /\ backup' = [exists |-> TRUE, content |-> bmfile]
            /\ bpc' = "backedup"
            /\ UNCHANGED <<bret, b_err>>
       ELSE /\ bret' = Err
            /\ b_err' = "copy"
            /\ bpc' = "done"
            /\ UNCHANGED backup
    /\ bm_frame
    /\ UNCHANGED <<bmfile, next_id, op, b_dry_run, b_interactive, json, dead_links,
                   ids_to_remove, bmfile0, dead_urls, b_key, written>>

\* remove_bookmarks_by_id on the copy read at the start, then fs::write
write_step(write_ok) ==
    /\ bpc = "backedup"
    /\ LET r == remove_bookmarks_by_id(json, ids_to_remove)
       IN  IF write_ok
           THEN /\ bmfile' = r.json
                /\ written' = written + 1
                /\ bret' = Ok(r.removed)
                /\ UNCHANGED b_err
           ELSE /\ bret' = Err
                /\ b_err' = "write"
                /\ UNCHANGED <<bmfile, written>>
    /\ bpc' = "done"
    /\ bm_frame
    /\ UNCHANGED <<next_id, backup, op, b_dry_run, b_interactive, json, dead_links,
                   ids_to_remove, bmfile0, dead_urls, b_key>>

remove_duplicates_prompt(k) == op = "remove_duplicates" /\ prompt_step(k)
remove_duplicates_backup(copy_ok) ==
    op = "remove_duplicates" /\ backup_step(copy_ok, Cardinality(ids_to_remove))
remove_duplicates_write(write_ok) == op = "remove_duplicates" /\ write_step(write_ok)

remove_dead_links_prompt(k) == op = "remove_dead_links" /\ prompt_step(k)
remove_dead_links_backup(copy_ok) ==
    op = "remove_dead_links" /\ backup_step(copy_ok, Len(dead_links))
remove_dead_links_write(write_ok) == op = "remove_dead_links" /\ write_step(write_ok)

\* the URLs of the file that check_url_status sends a request to
http_urls == {u \in {parse_bookmarks(bmfile)[i].url : i \in DOMAIN parse_bookmarks(bmfile)} :
                 starts_with(u, Http) \/ starts_with(u, Https)}

IdleClean ==
    /\ root = <<>> /\ dirs = {} /\ bytes = <<>> /\ unreadable = {} /\ pc = "idle"
    /\ dry_run = FALSE /\ verbose = FALSE /\ interactive = FALSE /\ entries = <<>>
    /\ cursor_pos = 0 /\ entries_arc = <<>> /\ node_modules_dirs = <<>> /\ results = <<>>
    /\ ret = "none" /\ dirs0 = {} /\ exit_key = "none" /\ selAtExit = {} /\ attempted = {}

InitBookmarks ==
    /\ bmfile = [r \in Range(RootOrder) |->
                    [type |-> "folder", id |-> IF r = "bookmark_bar" THEN 1 ELSE 2,
                     children |-> <<>>]]
    /\ next_id = 3
    /\ backup = NoBackup
    /\ bpc = "setup"
    /\ op = "none"
    /\ b_dry_run = FALSE /\ b_interactive = FALSE
    /\ json = <<>>
    /\ dead_links = <<>>
    /\ ids_to_remove = {}
    /\ bret = [tag |-> "none", n |-> 0]
    /\ bmfile0 = <<>>
    /\ dead_urls = {}
    /\ b_key = "none"
    /\ written = 0
    /\ b_err = "none"
    /\ IdleClean
    /\ IdleOrganize
    /\ IdlePackages
    /\ IdleClassifier
    /\ IdleParallel

NextBookmarks ==
    \/ \E r \in Range(RootOrder), u \in Urls :
           \E path \in folder_paths(bmfile[r]) : add_bookmark(r, path, u)
    \/ \E r \in Range(RootOrder) :
           \E path \in folder_paths(bmfile[r]) : add_folder(r, path)
    \/ \E d \in BOOLEAN, i \in BOOLEAN : remove_duplicates(d, i)
    \/ \E dead \in SUBSET http_urls, d \in BOOLEAN, i \in BOOLEAN : remove_dead_links(dead, d, i)
    \/ \E k \in PromptKeys : remove_duplicates_prompt(k)
    \/ \E ok \in BOOLEAN : remove_duplicates_backup(ok)
    \/ \E ok \in BOOLEAN : remove_duplicates_write(ok)
    \/ \E k \in PromptKeys : remove_dead_links_prompt(k)
    \/ \E ok \in BOOLEAN : remove_dead_links_backup(ok)
    \/ \E ok \in BOOLEAN : remove_dead_links_write(ok)

SpecBookmarks == InitBookmarks /\ [][NextBookmarks]_vars

(***************************************************************************)
(* Claims about the bookmarks, checked under SpecBookmarks.                *)
(***************************************************************************)
\* the bookmarks of the file before the call and now
bookmarks_before == parse_bookmarks(bmfile0)
bookmarks_after == parse_bookmarks(bmfile)

urls_of(bs) == {bs[i].url : i \in DOMAIN bs}
ids_of(bs) == {bs[i].id : i \in DOMAIN bs}
carrying(bs, u) == SelectSeq(bs, LAMBDA b : b.url = u)

YesKeys == {"y", "Y"}
NoKeys == {"n", "N", "Esc", "Enter"}

\* a non-dry-run remove_duplicates that went through and rewrote the file
duplicates_removed ==
    bpc = "done" /\ op = "remove_duplicates" /\ ~b_dry_run /\ written = 1

\* a remove_dead_links that went through and rewrote the file
dead_links_removed ==
    bpc = "done" /\ op = "remove_dead_links" /\ ~b_dry_run /\ written = 1

\* C5: after a confirmed non-dry-run remove_duplicates every URL that was
\* carried by two or more bookmarks is carried by exactly one, the first of
\* them in the depth-first order of parse_bookmarks.
C5_KeepsFirstOccurrence ==
    duplicates_removed =>
        \A u \in urls_of(bookmarks_before) :
            Len(carrying(bookmarks_before, u)) >= 2 =>
                /\ Len(carrying(bookmarks_after, u)) = 1
                /\ carrying(bookmarks_after, u)[1].id = carrying(bookmarks_before, u)[1].id

\* the user confirmed with y and a URL carried three times was reduced to one
C5_Witness ==
    /\ duplicates_removed
    /\ b_key = "y"
    /\ \E u \in urls_of(bookmarks_before) : Len(carrying(bookmarks_before, u)) >= 3
    /\ Len(bookmarks_after) < Len(bookmarks_before)

\* C6: remove_dead_links removes only the dead links: every bookmark whose
\* URL was not found dead (checked alive, or skipped as non-http) is still
\* in the file afterwards.
C6_OnlyDeadLinksRemoved ==
    dead_links_removed =>
        \A i \in DOMAIN bookmarks_before :
            bookmarks_before[i].url \notin dead_urls =>
                bookmarks_before[i].id \in ids_of(bookmarks_after)

\* C7: with interactive confirmation on, the file and the backup are touched
\* only after y or Y; n, N, Esc and Enter cancel (0 returned, no backup, file
\* unchanged); any other key leaves the prompt waiting.
C7_ConfirmBeforeChange ==
    b_interactive =>
        /\ (written > 0 \/ backup.exists \/ bmfile # bmfile0) => b_key \in YesKeys
        /\ b_key \in NoKeys =>
              /\ bpc = "done"
              /\ bret = Ok(0)
              /\ ~backup.exists
              /\ written = 0
              /\ bmfile = bmfile0
        /\ b_key \in PromptKeys \ (YesKeys \cup NoKeys) =>
              /\ bpc = "prompt"
              /\ bret.tag = "none"
              /\ ~backup.exists
              /\ written = 0
              /\ bmfile = bmfile0

\* the user pressed y at the prompt and the file was rewritten
C7_Witness ==
    /\ b_interactive
    /\ b_key \in YesKeys
    /\ written = 1
    /\ bmfile # bmfile0

\* C8: every write of the bookmarks file happens when the backup holds a
\* copy of the file, and a failed copy ends the call with an error and the
\* file as it was.
C8_BackupBeforeWrite ==
    /\ [][written' # written => (backup.exists /\ backup.content = bmfile)]_vars
    /\ [](b_err = "copy" =>
            (bpc = "done" /\ bret = Err /\ written = 0 /\ bmfile = bmfile0))

\* the file was rewritten and the backup holds what it was before
C8_Witness ==
    /\ written = 1
    /\ bmfile # bmfile0
    /\ backup.exists
    /\ backup.content = bmfile0

\* C9: with dry_run = true the bookmarks file is not written and no backup
\* is created, whether or not the user confirms.
C9_DryRunChangesNothing ==
    b_dry_run =>
        /\ bmfile = bmfile0
        /\ ~backup.exists
        /\ written = 0

\* a dry run the user confirmed, which reported what it would remove
C9_Witness ==
    /\ b_dry_run
    /\ bpc = "done"
    /\ b_key \in YesKeys
    /\ bret.tag = "Ok"
    /\ bret.n > 0

(***************************************************************************)
(*                         organizer.rs                                    *)
(***************************************************************************)
\* number of regular files directly in the directory
MaxFiles == 3

\* the names that occur in the modelled directory
FileNames == {"a.pdf", "b.PNG", ".env", "notes", "Cargo.toml"}
DirNames == {"Documents", "stuff"}

\* the characters of a name
Chars(n) ==
    CASE n = "a.pdf" -> <<"a", ".", "p", "d", "f">>
      [] n = "b.PNG" -> <<"b", ".", "P", "N", "G">>
      [] n = ".env" -> <<".", "e", "n", "v">>
      [] n = "notes" -> <<"n", "o", "t", "e", "s">>
      [] n = "Cargo.toml" -> <<"C", "a", "r", "g", "o", ".", "t", "o", "m", "l">>
      [] n = "Documents" -> <<"D", "o", "c", "u", "m", "e", "n", "t", "s">>
      [] n = "stuff" -> <<"s", "t", "u", "f", "f">>

\* char::to_lowercase on the letters A-Z
LowerMap ==
    ("A" :> "a") @@ ("B" :> "b") @@ ("C" :> "c") @@ ("D" :> "d") @@ ("E" :> "e") @@ ("F" :> "f") @@
    ("G" :> "g") @@ ("H" :> "h") @@ ("I" :> "i") @@ ("J" :> "j") @@ ("K" :> "k") @@ ("L" :> "l") @@
    ("M" :> "m") @@ ("N" :> "n") @@ ("O" :> "o") @@ ("P" :> "p") @@ ("Q" :> "q") @@ ("R" :> "r") @@
    ("S" :> "s") @@ ("T" :> "t") @@ ("U" :> "u") @@ ("V" :> "v") @@ ("W" :> "w") @@ ("X" :> "x") @@
    ("Y" :> "y") @@ ("Z" :> "z")

to_lowercase(cs) ==
    [i \in DOMAIN cs |-> IF cs[i] \in DOMAIN LowerMap THEN LowerMap[cs[i]] ELSE cs[i]]

\* the string spelled by a sequence of characters
RECURSIVE Str(_)
Str(cs) == IF cs = <<>> THEN "" ELSE Head(cs) \o Str(Tail(cs))

\* the characters in byte order, for the comparison of strings
CharOrder == <<".", "0", "1", "2", "3", "4", "5", "6", "7", "8", "9", "A", "B", "C", "D", "E", "F", "G", "H", "I", "J", "K", "L", "M", "N", "O", "P", "Q", "R", "S", "T", "U", "V", "W", "X", "Y", "Z", "_", "a", "b", "c", "d", "e", "f", "g", "h", "i", "j", "k", "l", "m", "n", "o", "p", "q", "r", "s", "t", "u", "v", "w", "x", "y", "z">>

ord(c) == CHOOSE i \in DOMAIN CharOrder : CharOrder[i] = c

\* a < b in the byte-wise order of str::cmp
RECURSIVE str_less(_, _)
str_less(a, b) ==
    IF b = <<>> THEN FALSE
    ELSE IF a = <<>> THEN TRUE
    ELSE IF Head(a) = Head(b) THEN str_less(Tail(a), Tail(b))
    ELSE ord(Head(a)) < ord(Head(b))

\* Path::extension: what follows the last '.', a leading '.' not counted
extension(cs) ==
    LET dots == {i \in 2..Len(cs) : cs[i] = "."}
    IN  IF dots = {} THEN <<>>
        ELSE SubSeq(cs, (CHOOSE i \in dots : \A j \in dots : j <= i) + 1, Len(cs))

ends_with(cs, suffix) ==
    Len(cs) >= Len(suffix) /\ SubSeq(cs, Len(cs) - Len(suffix) + 1, Len(cs)) = suffix

\* organizer.rs:16-55 DEV_MARKERS: the names, and the suffixes of the "*" patterns
DEV_MARKERS ==
    {"node_modules", "package.json", "package-lock.json", "yarn.lock", "pnpm-lock.yaml",
     "pom.xml", "build.gradle", "gradlew", ".mvn",
     "Cargo.toml", "Cargo.lock",
     "requirements.txt", "setup.py", "pyproject.toml", "Pipfile", ".venv", "venv",
     "go.mod", "go.sum",
     "Gemfile", "Gemfile.lock",
     "composer.json", "composer.lock",
     ".git",
     ".idea", ".vscode"}

DEV_MARKER_SUFFIXES == {<<".", "c", "s", "p", "r", "o", "j">>, <<".", "s", "l", "n">>}

\* organizer.rs:108-155 FileCategory::from_extension, as the folder name
from_extension(ext) ==
    LET e == Str(to_lowercase(ext))
    IN  CASE e \in {"pdf", "doc", "docx", "txt", "rtf", "odt", "xls", "xlsx", "ppt", "pptx",
                    "csv", "md", "pages", "numbers", "key"} -> "Documents"
          [] e \in {"jpg", "jpeg", "png", "gif", "bmp", "svg", "webp", "ico", "tiff", "tif",
                    "raw", "cr2", "nef", "heic", "heif", "psd", "ai", "eps"} -> "Images"
          [] e \in {"mp4", "mkv", "avi", "mov", "wmv", "flv", "webm", "m4v", "mpeg", "mpg",
                    "3gp", "ogv"} -> "Videos"
          [] e \in {"mp3", "wav", "flac", "aac", "ogg", "wma", "m4a", "aiff", "opus"} -> "Audio"
          [] e \in {"zip", "rar", "7z", "tar", "gz", "bz2", "xz", "tgz", "tbz2", "dmg", "iso"}
                -> "Archives"
          [] e \in {"sh", "bash", "zsh", "fish", "sql", "lua"} -> "Code"
          [] e \in {"json", "xml", "yaml", "yml", "toml", "ini", "cfg", "conf", "plist",
                    "sqlite", "db"} -> "Data"
          [] e \in {"exe", "msi", "app", "deb", "rpm", "pkg", "appimage", "run"} -> "Executables"
          [] e \in {"ttf", "otf", "woff", "woff2", "eot"} -> "Fonts"
          [] e \in {"epub", "mobi", "azw", "azw3", "fb2", "djvu"} -> "Ebooks"
          [] OTHER -> "Other"

\* the folder names of FileCategory::folder_name in the order of str::cmp
FolderOrder ==
    <<"Archives", "Audio", "Code", "Data", "Documents", "Ebooks", "Executables",
      "Fonts", "Images", "Other", "Videos">>

folder_rank(f) == CHOOSE i \in DOMAIN FolderOrder : FolderOrder[i] = f

\* organizer.rs:179-207 is_dev_folder: some entry of the directory is a marker
is_dev_folder ==
    \E n \in ofs.files \cup ofs.dirs :
        \/ n \in DEV_MARKERS
        \/ \E suffix \in DEV_MARKER_SUFFIXES : ends_with(Chars(n), suffix)

\* organizer.rs:249-254 the order of the sort: category folder, then file name
file_before(a, b) ==
    \/ folder_rank(a.category) < folder_rank(b.category)
    \/ /\ a.category = b.category
       /\ str_less(Chars(a.file_name), Chars(b.file_name))

RECURSIVE insert_file(_, _)
insert_file(f, s) ==
    IF s = <<>> THEN <<f>>
    ELSE IF file_before(f, Head(s)) THEN <<f>> \o s
    ELSE <<Head(s)>> \o insert_file(f, Tail(s))

RECURSIVE sort_files(_)
sort_files(fs) ==
    IF fs = {} THEN <<>>
    ELSE LET f == CHOOSE x \in fs : TRUE
         IN  insert_file(f, sort_files(fs \ {f}))

\* organizer.rs:210-257 get_files_to_organize: the visible regular files of
\* the directory with their category, all selected, sorted
get_files_to_organize ==
    sort_files({[file_name |-> n, category |-> from_extension(extension(Chars(n))),
                 selected |-> TRUE] :
                    n \in {m \in ofs.files : Chars(m)[1] # "."}})

(***************************************************************************)
(* The environment fills the directory before the tool is started.         *)
(***************************************************************************)
org_frame == UNCHANGED <<cleanVars, bmVars, pkgVars, catVars, parVars>>

create_file(n) ==
    /\ opc = "setup"
    /\ n \notin ofs.files
    /\ Cardinality(ofs.files) < MaxFiles
    /\ ofs' = [ofs EXCEPT !.files = @ \cup {n}]
    /\ org_frame
    /\ UNCHANGED <<opc, o_dry_run, o_verbose, o_interactive, files, selected_idx,
                   o_queue, o_results, o_ret, ofs0, o_key>>

create_dir(n) ==
    /\ opc = "setup"
    /\ n \notin ofs.dirs
    /\ ofs' = [ofs EXCEPT !.dirs = @ \cup {n}]
    /\ org_frame
    /\ UNCHANGED <<opc, o_dry_run, o_verbose, o_interactive, files, selected_idx,
                   o_queue, o_results, o_ret, ofs0, o_key>>

(***************************************************************************)
(* organize_files, up to its for loop or to the interactive selection.     *)
(***************************************************************************)
OkEntries(es) == [tag |-> "Ok", entries |-> es]
ErrEntries == [tag |-> "Err", entries |-> <<>>]

organize_files(d, v, i) ==
    /\ opc = "setup"
    /\ o_dry_run' = d /\ o_verbose' = v /\ o_interactive' = i
    /\ ofs0' = ofs
    /\ IF is_dev_folder
       THEN /\ o_ret' = OkEntries(<<>>)
            /\ opc' = "done"
            /\ UNCHANGED <<files, o_queue>>
       ELSE LET found == get_files_to_organize
            IN  IF found = <<>>
                THEN /\ o_ret' = OkEntries(<<>>)
                     /\ opc' = "done"
                     /\ UNCHANGED <<files, o_queue>>
                ELSE IF i
                THEN /\ files' = found
                     /\ opc' = "anykey"
                     /\ UNCHANGED <<o_ret, o_queue>>
                ELSE /\ o_queue' = found
                     /\ opc' = "moving"
                     /\ UNCHANGED <<o_ret, files>>
    /\ org_frame
    /\ UNCHANGED <<ofs, selected_idx, o_results, o_key>>

\* interactive_organize: "Press any key to continue..."
interactive_organize_any_key ==
    /\ opc = "anykey"
    /\ opc' = "select"
    /\ selected_idx' = 0
    /\ org_frame
    /\ UNCHANGED <<ofs, o_dry_run, o_verbose, o_interactive, files,
                   o_queue, o_results, o_ret, ofs0, o_key>>

\* organizer.rs:517-559 one key of the selection loop of interactive_organize
interactive_organize(k) ==
    /\ opc = "select"
    /\ CASE k \in {"Up", "k"} ->
              /\ selected_idx' = IF selected_idx > 0 THEN selected_idx - 1 ELSE selected_idx
              /\ UNCHANGED <<files, opc, o_ret, o_queue, o_key>>
         [] k \in {"Down", "j"} ->
              /\ selected_idx' = IF selected_idx < Len(files) - 1
                                 THEN selected_idx + 1 ELSE selected_idx
              /\ UNCHANGED <<files, opc, o_ret, o_queue, o_key>>
         [] k = "Space" ->
              /\ files' = [files EXCEPT ![selected_idx + 1].selected = ~@]
              /\ UNCHANGED <<selected_idx, opc, o_ret, o_queue, o_key>>
         [] k = "a" ->
              /\ files' = set_all(files, TRUE)
              /\ UNCHANGED <<selected_idx, opc, o_ret, o_queue, o_key>>
         [] k = "n" ->
              /\ files' = set_all(files, FALSE)
              /\ UNCHANGED <<selected_idx, opc, o_ret, o_queue, o_key>>
         [] k = "Enter" ->
              LET selected_files == SelectSeq(files, LAMBDA f : f.selected)
              IN  /\ o_key' = k
                  /\ IF selected_files = <<>>
                     THEN /\ o_ret' = OkEntries(<<>>)
                          /\ opc' = "done"
                          /\ UNCHANGED o_queue
                     ELSE /\ o_queue' = selected_files
                          /\ opc' = "moving"
                          /\ UNCHANGED o_ret
                  /\ UNCHANGED <<files, selected_idx>>
         [] k \in {"q", "Esc", "CtrlC"} ->
              /\ o_key' = k
              /\ o_ret' = OkEntries(<<>>)
              /\ opc' = "done"
              /\ UNCHANGED <<files, selected_idx, o_queue>>
         [] OTHER ->
              UNCHANGED <<files, selected_idx, opc, o_ret, o_queue, o_key>>
    /\ org_frame
    /\ UNCHANGED <<ofs, o_dry_run, o_verbose, o_interactive, o_results, ofs0>>

(***************************************************************************)
(* One iteration of the for loop (organizer.rs:329-390 and 586-634): in a  *)
(* dry run the entry is "Would move"; otherwise the category folder is     *)
(* created if nothing of that name exists, and the file is renamed, or     *)
(* copied and removed when the rename fails.                               *)
(***************************************************************************)
entry_of(file, status) ==
    [file_name |-> file.file_name, category |-> file.category,
     destination |-> <<file.category, file.file_name>>, status |-> status]

\* move_file without the dry_run test
move_file_no_dry_run(create_ok, rename_ok, copy_ok, remove_ok) ==
    LET file == Head(o_queue)
        folder == file.category
        exists == folder \in ofs.dirs \cup ofs.files
        dirs1 == IF exists THEN ofs.dirs ELSE ofs.dirs \cup {folder}
        moved_away == rename_ok \/ (copy_ok /\ remove_ok)
        arrived == rename_ok \/ copy_ok
    IN  /\ opc = "moving"
        /\ o_queue # <<>>
        /\ IF ~exists /\ ~create_ok
           THEN /\ o_ret' = ErrEntries
                /\ opc' = "done"
                /\ UNCHANGED <<ofs, o_queue, o_results>>
           ELSE /\ ofs' = [files |-> IF moved_away THEN ofs.files \ {file.file_name} ELSE ofs.files,
                           dirs |-> dirs1,
                           moved |-> IF arrived
                                     THEN ofs.moved \cup {<<folder, file.file_name>>}
                                     ELSE ofs.moved]
                /\ o_results' = Append(o_results, entry_of(file, IF arrived THEN "Moved" ELSE "Error"))
                /\ o_queue' = Tail(o_queue)
                /\ UNCHANGED <<opc, o_ret>>
        /\ org_frame
        /\ UNCHANGED <<o_dry_run, o_verbose, o_interactive, files, selected_idx, ofs0, o_key>>

move_file(create_ok, rename_ok, copy_ok, remove_ok) ==
    LET file == Head(o_queue)
        folder == file.category
        exists == folder \in ofs.dirs \cup ofs.files
        dirs1 == IF exists THEN ofs.dirs ELSE ofs.dirs \cup {folder}
        moved_away == rename_ok \/ (copy_ok /\ remove_ok)
        arrived == rename_ok \/ copy_ok
    IN  /\ opc = "moving"
        /\ o_queue # <<>>
        /\ IF o_dry_run
           THEN /\ o_results' = Append(o_results, entry_of(file, "Would move"))
                /\ o_queue' = Tail(o_queue)
                /\ UNCHANGED <<ofs, opc, o_ret>>
           ELSE IF ~exists /\ ~create_ok
           THEN /\ o_ret' = ErrEntries
                /\ opc' = "done"
                /\ UNCHANGED <<ofs, o_queue, o_results>>
           ELSE /\ ofs' = [files |-> IF moved_away THEN ofs.files \ {file.file_name} ELSE ofs.files,
                           dirs |-> dirs1,
                           moved |-> IF arrived
                                     THEN ofs.moved \cup {<<folder, file.file_name>>}
                                     ELSE ofs.moved]
                /\ o_results' = Append(o_results, entry_of(file, IF arrived THEN "Moved" ELSE "Error"))
                /\ o_queue' = Tail(o_queue)
                /\ UNCHANGED <<opc, o_ret>>
        /\ org_frame
        /\ UNCHANGED <<o_dry_run, o_verbose, o_interactive, files, selected_idx, ofs0, o_key>>

organize_files_move(create_ok, rename_ok, copy_ok, remove_ok) ==
    ~o_interactive /\ move_file(create_ok, rename_ok, copy_ok, remove_ok)

interactive_organize_move(create_ok, rename_ok, copy_ok, remove_ok) ==
    o_interactive /\ move_file(create_ok, rename_ok, copy_ok, remove_ok)

\* the end of the for loop: Ok(results)
organize_files_end ==
    /\ opc = "moving"
    /\ o_queue = <<>>
    /\ o_ret' = OkEntries(o_results)
    /\ opc' = "done"
    /\ org_frame
    /\ UNCHANGED <<ofs, o_dry_run, o_verbose, o_interactive, files, selected_idx,
                   o_queue, o_results, ofs0, o_key>>

InitOrganize ==
    /\ ofs = [files |-> {}, dirs |-> {}, moved |-> {}]
    /\ opc = "setup"
    /\ o_dry_run = FALSE /\ o_verbose = FALSE /\ o_interactive = FALSE
    /\ files = <<>>
    /\ selected_idx = 0
    /\ o_queue = <<>>
    /\ o_results = <<>>
    /\ o_ret = [tag |-> "none", entries |-> <<>>]
    /\ ofs0 = [files |-> {}, dirs |-> {}, moved |-> {}]
    /\ o_key = "none"
    /\ IdleClean
    /\ IdleBookmarks
    /\ IdlePackages
    /\ IdleClassifier
    /\ IdleParallel

NextOrganize ==
    \/ \E n \in FileNames : create_file(n)
    \/ \E n \in DirNames : create_dir(n)
    \/ \E d \in BOOLEAN, v \in BOOLEAN, i \in BOOLEAN : organize_files(d, v, i)
    \/ interactive_organize_any_key
    \/ \E k \in Keys : interactive_organize(k)
    \/ \E c \in BOOLEAN, r \in BOOLEAN, cp \in BOOLEAN, rm \in BOOLEAN :
           organize_files_move(c, r, cp, rm)
    \/ \E c \in BOOLEAN, r \in BOOLEAN, cp \in BOOLEAN, rm \in BOOLEAN :
           interactive_organize_move(c, r, cp, rm)
    \/ organize_files_end

SpecOrganize == InitOrganize /\ [][NextOrganize]_vars

(***************************************************************************)
(* Claims about the organizer, checked under SpecOrganize.                 *)
(***************************************************************************)
\* C10: with dry_run = true organize_files creates no category directory
\* and moves, copies or deletes no file, in the non-interactive and in the
\* interactive path, and every entry it returns has status "Would move".
C10_DryRunMovesNothing ==
    o_dry_run =>
        /\ ofs = ofs0
        /\ \A i \in DOMAIN o_results : o_results[i].status = "Would move"
        /\ o_ret.tag # "Err"
        /\ \A i \in DOMAIN o_ret.entries : o_ret.entries[i].status = "Would move"

\* an interactive dry run in which Enter was pressed with some, but not all,
\* files selected, and which returned its entries
C10_Witness ==
    /\ o_dry_run
    /\ o_interactive
    /\ opc = "done"
    /\ o_key = "Enter"
    /\ Len(o_ret.entries) >= 1
    /\ Len(o_ret.entries) < Len(files)

(***************************************************************************)
(*                         packages.rs                                     *)
(***************************************************************************)

\* largest major, minor and patch number of the generated version strings
MaxComponent == 1

\* the operands of the comparisons
Operands == {"a", "b", "c"}

DigitChars == <<"0", "1", "2", "3", "4", "5", "6", "7", "8", "9">>

digit_value(c) == (CHOOSE i \in DOMAIN DigitChars : DigitChars[i] = c) - 1

\* the decimal spelling of a number
RECURSIVE to_string(_)
to_string(n) ==
    IF n < 10 THEN <<DigitChars[n + 1]>>
    ELSE to_string(n \div 10) \o <<DigitChars[(n % 10) + 1]>>

\* str::trim_start_matches with a char pattern
RECURSIVE trim_start_matches(_, _)
trim_start_matches(s, c) ==
    IF s # <<>> /\ Head(s) = c THEN trim_start_matches(Tail(s), c) ELSE s

\* the length of the longest run of digits s starts with: what a greedy \d+ takes
RECURSIVE digits_len(_)
digits_len(s) ==
    IF s # <<>> /\ Head(s) \in Range(DigitChars) THEN 1 + digits_len(Tail(s)) ELSE 0

\* u32::MAX, spelled
U32MaxDigits == <<"4", "2", "9", "4", "9", "6", "7", "2", "9", "5">>

RECURSIVE decimal(_)
decimal(ds) ==
    IF ds = <<>> THEN 0
    ELSE 10 * decimal(SubSeq(ds, 1, Len(ds) - 1)) + digit_value(Last(ds))

\* packages.rs:41  m.as_str().parse().unwrap_or(0) into a u32: a run of digits
\* above u32::MAX fails to parse and becomes 0
parse_u32(ds) ==
    LET sig == trim_start_matches(ds, "0")
    IN  IF Len(sig) > Len(U32MaxDigits)
           \/ (Len(sig) = Len(U32MaxDigits) /\ str_less(U32MaxDigits, sig))
        THEN 0
        ELSE decimal(sig)

\* packages.rs:38  ^(\d+)(?:\.(\d+))?(?:\.(\d+))?(?:-(.+))?  matched at the
\* start of s, every group greedy
captures(s) ==
    LET n1 == digits_len(s)
        r1 == SubSeq(s, n1 + 1, Len(s))
        has2 == r1 # <<>> /\ Head(r1) = "." /\ digits_len(Tail(r1)) > 0
        n2 == IF has2 THEN digits_len(Tail(r1)) ELSE 0
        r2 == IF has2 THEN SubSeq(r1, n2 + 2, Len(r1)) ELSE r1
        has3 == r2 # <<>> /\ Head(r2) = "." /\ digits_len(Tail(r2)) > 0
        n3 == IF has3 THEN digits_len(Tail(r2)) ELSE 0
        r3 == IF has3 THEN SubSeq(r2, n3 + 2, Len(r2)) ELSE r2
        has4 == Len(r3) >= 2 /\ Head(r3) = "-"
    IN  IF n1 = 0 THEN [matched |-> FALSE]
        ELSE [matched |-> TRUE,
              g1 |-> SubSeq(s, 1, n1),
              has2 |-> has2, g2 |-> SubSeq(r1, 2, n2 + 1),
              has3 |-> has3, g3 |-> SubSeq(r2, 2, n3 + 1),
              has4 |-> has4, g4 |-> IF has4 THEN Tail(r3) ELSE <<>>]

\* packages.rs:29-55 Version::parse
Version_parse(version_str) ==
    LET clean_version ==
            trim_start_matches(trim_start_matches(trim_start_matches(
            trim_start_matches(trim_start_matches(trim_start_matches(
            trim_start_matches(version_str, "v"), "^"), "~"), "="), ">"), "<"), "*")
        c == captures(clean_version)
    IN  IF c.matched
        THEN [ok |-> TRUE,
              version |-> [major |-> parse_u32(c.g1),
                           minor |-> IF c.has2 THEN parse_u32(c.g2) ELSE 0,
                           patch |-> IF c.has3 THEN parse_u32(c.g3) ELSE 0,
                           pre_release |-> IF c.has4 THEN c.g4 ELSE <<>>]]
        ELSE [ok |-> FALSE]

\* a comparator that ranks the pre-release strings as str::cmp does, the
\* empty one with them
is_greater_than_str_cmp(self, other) ==
    IF self.major # other.major THEN self.major > other.major
    ELSE IF self.minor # other.minor THEN self.minor > other.minor
    ELSE IF self.patch # other.patch THEN self.patch > other.patch
    ELSE str_less(other.pre_release, self.pre_release)

\* packages.rs:57-75 Version::is_greater_than
is_greater_than(self, other) ==
    IF self.major # other.major THEN self.major > other.major
    ELSE IF self.minor # other.minor THEN self.minor > other.minor
    ELSE IF self.patch # other.patch THEN self.patch > other.patch
    ELSE CASE self.pre_release = <<>> /\ other.pre_release # <<>> -> TRUE
           [] self.pre_release # <<>> /\ other.pre_release = <<>> -> FALSE
           [] self.pre_release = <<>> /\ other.pre_release = <<>> -> FALSE
           [] self.pre_release # <<>> /\ other.pre_release # <<>> ->
                  str_less(other.pre_release, self.pre_release)

\* the version strings of the packages files and of the command line
VersionStrings ==
    {to_string(M) \o <<".">> \o to_string(m) \o <<".">> \o to_string(p) \o t :
        M \in 0..MaxComponent, m \in 0..MaxComponent, p \in 0..MaxComponent,
        t \in {<<>>, <<"-", "b", "e", "t", "a">>}}
    \cup {<<"v", "1">>,
          <<"^", "1", ".", "0">>,
          <<"1", "-", "r", "c">>,
          <<">", "=", "1", ".", "0", ".", "0">>,
          <<"1", ".", "0", ".", "0", "-">>,
          <<"9", "9", "9", "9", "9", "9", "9", "9", "9", "9", "9">>}

\* packages.rs:84,106  the version strings are parsed
parse_versions ==
    /\ vpc = "parse"
    /\ v_parsed' = [x \in Operands |-> Version_parse(v_str[x])]
    /\ vpc' = "compare"
    /\ UNCHANGED <<v_str, v_gt, cleanVars, bmVars, orgVars, catVars, parVars>>

\* packages.rs:107  the versions that parsed are compared, each with each
compare_versions ==
    /\ vpc = "compare"
    /\ v_gt' = [x \in Operands, y \in Operands |->
                   IF v_parsed[x].ok /\ v_parsed[y].ok
                   THEN is_greater_than(v_parsed[x].version, v_parsed[y].version)
                   ELSE FALSE]
    /\ vpc' = "compared"
    /\ UNCHANGED <<v_str, v_parsed, cleanVars, bmVars, orgVars, catVars, parVars>>

InitVersions ==
    /\ v_str \in [Operands -> VersionStrings]
    /\ v_parsed = <<>>
    /\ v_gt = <<>>
    /\ vpc = "parse"
    /\ IdleClean
    /\ IdleBookmarks
    /\ IdleOrganize
    /\ IdleClassifier
    /\ IdleParallel

NextVersions ==
    \/ parse_versions
    \/ compare_versions

SpecVersions == InitVersions /\ [][NextVersions]_vars

(***************************************************************************)
(* Claims about the version comparator, checked under SpecVersions.        *)
(***************************************************************************)

\* the operands whose version string parsed
parsed_operands == {x \in Operands : v_parsed[x].ok}

numbers(x) == <<v_parsed[x].version.major, v_parsed[x].version.minor, v_parsed[x].version.patch>>

\* major, then minor, then patch
numbers_greater(m, n) ==
    \/ m[1] > n[1]
    \/ m[1] = n[1] /\ m[2] > n[2]
    \/ m[1] = n[1] /\ m[2] = n[2] /\ m[3] > n[3]

exactly_one(P, Q, R) ==
    (P /\ ~Q /\ ~R) \/ (~P /\ Q /\ ~R) \/ (~P /\ ~Q /\ R)

\* C11: is_greater_than is a strict total order on the parsed versions: it is
\* irreflexive, asymmetric and transitive, of any two versions exactly one of
\* a > b, b > a, a == b holds, the numbers are compared major, then minor,
\* then patch, and a release is greater than every pre-release of the same
\* major.minor.patch.
C11_StrictTotalOrder ==
    vpc = "compared" =>
        \A x \in parsed_operands, y \in parsed_operands, z \in parsed_operands :
            /\ ~v_gt[x, x]
            /\ v_gt[x, y] => ~v_gt[y, x]
            /\ (v_gt[x, y] /\ v_gt[y, z]) => v_gt[x, z]
            /\ exactly_one(v_gt[x, y], v_gt[y, x], v_parsed[x].version = v_parsed[y].version)
            /\ numbers(x) # numbers(y) => (v_gt[x, y] <=> numbers_greater(numbers(x), numbers(y)))
            /\ (/\ numbers(x) = numbers(y)
                /\ v_parsed[x].version.pre_release = <<>>
                /\ v_parsed[y].version.pre_release # <<>>) => v_gt[x, y]

\* a release and two pre-releases of the same major.minor.patch, compared
C11_Witness ==
    /\ vpc = "compared"
    /\ parsed_operands = Operands
    /\ numbers("a") = numbers("b") /\ numbers("b") = numbers("c")
    /\ v_parsed["a"].version.pre_release = <<>>
    /\ v_parsed["b"].version.pre_release # <<>>
    /\ v_parsed["c"].version.pre_release # <<>>
    /\ v_gt["a", "b"] /\ v_gt["b", "c"] /\ v_gt["a", "c"]

(***************************************************************************)
(*                  bookmarks.rs: the classifier                           *)
(***************************************************************************)

\* the largest number of words of a bookmark title
MaxTitleWords == 2

\* char::to_uppercase on the letters a-z
to_uppercase(cs) ==
    [i \in DOMAIN cs |->
        IF \E u \in DOMAIN LowerMap : LowerMap[u] = cs[i]
        THEN CHOOSE u \in DOMAIN LowerMap : LowerMap[u] = cs[i]
        ELSE cs[i]]

\* bookmarks.rs:215-1312  the condition of the if statement that returns the
\* category cat
rule_holds(cat, url_lower, combined) ==
    CASE cat = "AIRAG" ->    \* bookmarks.rs:215-229
           \/ contains(combined, <<"r", "e", "t", "r", "i", "e", "v", "a", "l", " ", "a", "u", "g", "m", "e", "n", "t", "e", "d">>)
           \/ contains(combined, <<"r", "a", "g", " ">>)
           \/ contains(combined, <<" ", "r", "a", "g">>)
           \/ (contains(combined, <<"l", "a", "n", "g", "c", "h", "a", "i", "n">>) /\ contains(combined, <<"r", "e", "t", "r", "i", "e", "v">>))
           \/ contains(combined, <<"l", "l", "a", "m", "a", "i", "n", "d", "e", "x">>)
           \/ contains(combined, <<"l", "l", "a", "m", "a", "-", "i", "n", "d", "e", "x">>)
           \/ contains(combined, <<"l", "l", "a", "m", "a", "_", "i", "n", "d", "e", "x">>)
           \/ (contains(combined, <<"h", "a", "y", "s", "t", "a", "c", "k">>) /\ contains(combined, <<"a", "i">>))
           \/ contains(combined, <<"d", "o", "c", "u", "m", "e", "n", "t", " ", "r", "e", "t", "r", "i", "e", "v", "a", "l">>)
           \/ (contains(combined, <<"s", "e", "m", "a", "n", "t", "i", "c", " ", "s", "e", "a", "r", "c", "h">>) /\ contains(combined, <<"l", "l", "m">>))
           \/ (contains(combined, <<"k", "n", "o", "w", "l", "e", "d", "g", "e", " ", "b", "a", "s", "e">>) /\ contains(combined, <<"a", "i">>))
           \/ (contains(combined, <<"c", "h", "u", "n", "k", "i", "n", "g">>) /\ (contains(combined, <<"l", "l", "m">>) \/ contains(combined, <<"e", "m", "b", "e", "d", "d", "i", "n", "g">>)))
      [] cat = "AIContext" ->    \* bookmarks.rs:233-249
           \/ contains(combined, <<"c", "o", "n", "t", "e", "x", "t", " ", "w", "i", "n", "d", "o", "w">>)
           \/ contains(combined, <<"c", "o", "n", "t", "e", "x", "t", " ", "l", "e", "n", "g", "t", "h">>)
           \/ contains(combined, <<"l", "o", "n", "g", " ", "c", "o", "n", "t", "e", "x", "t">>)
           \/ (contains(combined, <<"m", "e", "m", "o", "r", "y">>) /\ (contains(combined, <<"l", "l", "m">>) \/ contains(combined, <<"a", "g", "e", "n", "t">>) \/ contains(combined, <<"a", "i">>)))
           \/ contains(combined, <<"c", "o", "n", "v", "e", "r", "s", "a", "t", "i", "o", "n", " ", "m", "e", "m", "o", "r", "y">>)
           \/ contains(combined, <<"c", "h", "a", "t", " ", "h", "i", "s", "t", "o", "r", "y">>)
           \/ contains(combined, <<"m", "e", "m", "0">>)
           \/ contains(combined, <<"m", "e", "m", "g", "p", "t">>)
           \/ contains(combined, <<"c", "o", "n", "t", "e", "x", "t", " ", "m", "a", "n", "a", "g", "e", "m", "e", "n", "t">>)
           \/ contains(combined, <<"t", "o", "k", "e", "n", " ", "l", "i", "m", "i", "t">>)
           \/ contains(combined, <<"c", "o", "n", "t", "e", "x", "t", " ", "c", "o", "m", "p", "r", "e", "s", "s", "i", "o", "n">>)
           \/ (contains(combined, <<"s", "l", "i", "d", "i", "n", "g", " ", "w", "i", "n", "d", "o", "w">>) /\ contains(combined, <<"c", "o", "n", "t", "e", "x", "t">>))
      [] cat = "AIAgents" ->    \* bookmarks.rs:253-276
           \/ contains(combined, <<"a", "i", " ", "a", "g", "e", "n", "t">>)
           \/ contains(combined, <<"a", "u", "t", "o", "n", "o", "m", "o", "u", "s", " ", "a", "g", "e", "n", "t">>)
           \/ contains(combined, <<"l", "a", "n", "g", "c", "h", "a", "i", "n", " ", "a", "g", "e", "n", "t">>)
           \/ contains(combined, <<"a", "u", "t", "o", "g", "p", "t">>)
           \/ contains(combined, <<"a", "u", "t", "o", "-", "g", "p", "t">>)
           \/ contains(combined, <<"b", "a", "b", "y", "a", "g", "i">>)
           \/ contains(combined, <<"c", "r", "e", "w", "a", "i">>)
           \/ contains(combined, <<"c", "r", "e", "w", " ", "a", "i">>)
           \/ contains(combined, <<"a", "u", "t", "o", "g", "e", "n">>)
           \/ contains(combined, <<"a", "g", "e", "n", "t", " ", "f", "r", "a", "m", "e", "w", "o", "r", "k">>)
           \/ contains(combined, <<"m", "u", "l", "t", "i", "-", "a", "g", "e", "n", "t">>)
           \/ contains(combined, <<"m", "u", "l", "t", "i", "a", "g", "e", "n", "t">>)
           \/ (contains(combined, <<"t", "o", "o", "l", " ", "u", "s", "e">>) /\ contains(combined, <<"l", "l", "m">>))
           \/ (contains(combined, <<"f", "u", "n", "c", "t", "i", "o", "n", " ", "c", "a", "l", "l", "i", "n", "g">>) /\ contains(combined, <<"a", "i">>))
           \/ contains(combined, <<"a", "g", "e", "n", "t", "i", "c">>)
           \/ contains(combined, <<"a", "g", "e", "n", "t", " ", "o", "r", "c", "h", "e", "s", "t", "r", "a", "t", "i", "o", "n">>)
           \/ contains(combined, <<"s", "m", "o", "l", "a", "g", "e", "n", "t">>)
           \/ contains(combined, <<"p", "h", "i", "d", "a", "t", "a">>)
           \/ (contains(combined, <<"s", "w", "a", "r", "m">>) /\ contains(combined, <<"a", "g", "e", "n", "t">>))
           \/ (contains(url_lower, <<"m", "c", "p">>) /\ (contains(combined, <<"p", "r", "o", "t", "o", "c", "o", "l">>) \/ contains(combined, <<"c", "o", "n", "t", "e", "x", "t">>)))
           \/ contains(combined, <<"m", "o", "d", "e", "l", " ", "c", "o", "n", "t", "e", "x", "t", " ", "p", "r", "o", "t", "o", "c", "o", "l">>)
      [] cat = "AIPromptEngineering" ->    \* bookmarks.rs:280-296
           \/ contains(combined, <<"p", "r", "o", "m", "p", "t", " ", "e", "n", "g", "i", "n", "e", "e", "r", "i", "n", "g">>)
           \/ contains(combined, <<"p", "r", "o", "m", "p", "t", " ", "t", "e", "m", "p", "l", "a", "t", "e">>)
           \/ contains(combined, <<"p", "r", "o", "m", "p", "t", "i", "n", "g">>)
           \/ contains(combined, <<"c", "h", "a", "i", "n", " ", "o", "f", " ", "t", "h", "o", "u", "g", "h", "t">>)
           \/ contains(combined, <<"c", "o", "t", " ", "p", "r", "o", "m", "p", "t", "i", "n", "g">>)
           \/ contains(combined, <<"f", "e", "w", "-", "s", "h", "o", "t">>)
           \/ contains(combined, <<"z", "e", "r", "o", "-", "s", "h", "o", "t">>)
           \/ contains(combined, <<"i", "n", "-", "c", "o", "n", "t", "e", "x", "t", " ", "l", "e", "a", "r", "n", "i", "n", "g">>)
           \/ contains(combined, <<"p", "r", "o", "m", "p", "t", " ", "i", "n", "j", "e", "c", "t", "i", "o", "n">>)
           \/ (contains(combined, <<"j", "a", "i", "l", "b", "r", "e", "a", "k">>) /\ contains(combined, <<"l", "l", "m">>))
           \/ contains(combined, <<"s", "y", "s", "t", "e", "m", " ", "p", "r", "o", "m", "p", "t">>)
           \/ contains(combined, <<"p", "r", "o", "m", "p", "t", " ", "o", "p", "t", "i", "m", "i", "z", "a", "t", "i", "o", "n">>)
           \/ contains(combined, <<"d", "s", "p", "y">>)
           \/ contains(combined, <<"p", "r", "o", "m", "p", "t", "f", "o", "o">>)
           \/ contains(combined, <<"p", "r", "o", "m", "p", "t", " ", "t", "e", "s", "t", "i", "n", "g">>)
      [] cat = "AIVectorDB" ->    \* bookmarks.rs:300-317
           \/ contains(url_lower, <<"p", "i", "n", "e", "c", "o", "n", "e", ".", "i", "o">>)
           \/ contains(url_lower, <<"w", "e", "a", "v", "i", "a", "t", "e", ".", "i", "o">>)
           \/ contains(url_lower, <<"m", "i", "l", "v", "u", "s", ".", "i", "o">>)
           \/ contains(url_lower, <<"q", "d", "r", "a", "n", "t">>)
           \/ (contains(url_lower, <<"c", "h", "r", "o", "m", "a">>) /\ contains(combined, <<"v", "e", "c", "t", "o", "r">>))
           \/ contains(url_lower, <<"c", "h", "r", "o", "m", "a", "d", "b">>)
           \/ contains(combined, <<"v", "e", "c", "t", "o", "r", " ", "d", "a", "t", "a", "b", "a", "s", "e">>)
           \/ contains(combined, <<"v", "e", "c", "t", "o", "r", " ", "d", "b">>)
           \/ contains(combined, <<"v", "e", "c", "t", "o", "r", "s", "t", "o", "r", "e">>)
           \/ contains(combined, <<"v", "e", "c", "t", "o", "r", " ", "s", "t", "o", "r", "e">>)
           \/ contains(combined, <<"p", "g", "v", "e", "c", "t", "o", "r">>)
           \/ (contains(combined, <<"f", "a", "i", "s", "s">>) /\ contains(combined, <<"v", "e", "c", "t", "o", "r">>))
           \/ (contains(combined, <<"a", "n", "n", "o", "y">>) /\ contains(combined, <<"v", "e", "c", "t", "o", "r">>))
           \/ (contains(combined, <<"s", "i", "m", "i", "l", "a", "r", "i", "t", "y", " ", "s", "e", "a", "r", "c", "h">>) /\ contains(combined, <<"v", "e", "c", "t", "o", "r">>))
           \/ contains(url_lower, <<"l", "a", "n", "c", "e", "d", "b">>)
           \/ contains(url_lower, <<"v", "e", "s", "p", "a", ".", "a", "i">>)
      [] cat = "AIEmbeddings" ->    \* bookmarks.rs:321-334
           \/ contains(combined, <<"e", "m", "b", "e", "d", "d", "i", "n", "g">>)
           \/ contains(combined, <<"s", "e", "n", "t", "e", "n", "c", "e", " ", "t", "r", "a", "n", "s", "f", "o", "r", "m", "e", "r">>)
           \/ contains(combined, <<"t", "e", "x", "t", "-", "e", "m", "b", "e", "d", "d", "i", "n", "g">>)
           \/ contains(combined, <<"a", "d", "a", "-", "0", "0", "2">>)
           \/ contains(combined, <<"o", "p", "e", "n", "a", "i", " ", "e", "m", "b", "e", "d", "d", "i", "n", "g">>)
           \/ contains(combined, <<"c", "o", "h", "e", "r", "e", " ", "e", "m", "b", "e", "d">>)
           \/ contains(combined, <<"w", "o", "r", "d", "2", "v", "e", "c">>)
           \/ contains(combined, <<"d", "o", "c", "2", "v", "e", "c">>)
           \/ contains(combined, <<"s", "e", "m", "a", "n", "t", "i", "c", " ", "s", "i", "m", "i", "l", "a", "r", "i", "t", "y">>)
           \/ (contains(url_lower, <<"h", "u", "g", "g", "i", "n", "g", "f", "a", "c", "e">>) /\ contains(combined, <<"e", "m", "b", "e", "d">>))
           \/ contains(combined, <<"v", "o", "y", "a", "g", "e", " ", "a", "i">>)
           \/ contains(combined, <<"j", "i", "n", "a", " ", "e", "m", "b", "e", "d", "d", "i", "n", "g">>)
      [] cat = "AIFineTuning" ->    \* bookmarks.rs:338-355
           \/ contains(combined, <<"f", "i", "n", "e", "-", "t", "u", "n">>)
           \/ contains(combined, <<"f", "i", "n", "e", "t", "u", "n">>)
           \/ contains(combined, <<"l", "o", "r", "a">>)
           \/ contains(combined, <<"q", "l", "o", "r", "a">>)
           \/ contains(combined, <<"p", "e", "f", "t">>)
           \/ (contains(combined, <<"a", "d", "a", "p", "t", "e", "r">>) /\ contains(combined, <<"l", "l", "m">>))
           \/ contains(combined, <<"i", "n", "s", "t", "r", "u", "c", "t", "i", "o", "n", " ", "t", "u", "n", "i", "n", "g">>)
           \/ contains(combined, <<"r", "l", "h", "f">>)
           \/ (contains(combined, <<"d", "p", "o">>) /\ contains(combined, <<"t", "r", "a", "i", "n", "i", "n", "g">>))
           \/ (contains(combined, <<"s", "f", "t">>) /\ (contains(combined, <<"l", "l", "m">>) \/ contains(combined, <<"t", "r", "a", "i", "n", "i", "n", "g">>)))
           \/ (contains(combined, <<"t", "r", "a", "i", "n", "i", "n", "g", " ", "d", "a", "t", "a">>) /\ contains(combined, <<"l", "l", "m">>))
           \/ contains(combined, <<"a", "x", "o", "l", "o", "t", "l">>)
           \/ contains(combined, <<"u", "n", "s", "l", "o", "t", "h">>)
           \/ contains(url_lower, <<"p", "r", "e", "d", "i", "b", "a", "s", "e">>)
           \/ (contains(url_lower, <<"t", "o", "g", "e", "t", "h", "e", "r", ".", "a", "i">>) /\ contains(combined, <<"f", "i", "n", "e">>))
      [] cat = "AILLMs" ->    \* bookmarks.rs:359-395
           \/ contains(url_lower, <<"o", "p", "e", "n", "a", "i", ".", "c", "o", "m">>)
           \/ contains(url_lower, <<"a", "n", "t", "h", "r", "o", "p", "i", "c", ".", "c", "o", "m">>)
           \/ contains(url_lower, <<"c", "l", "a", "u", "d", "e", ".", "a", "i">>)
           \/ contains(url_lower, <<"c", "h", "a", "t", ".", "o", "p", "e", "n", "a", "i", ".", "c", "o", "m">>)
           \/ contains(url_lower, <<"g", "e", "m", "i", "n", "i", ".", "g", "o", "o", "g", "l", "e">>)
           \/ contains(url_lower, <<"b", "a", "r", "d", ".", "g", "o", "o", "g", "l", "e">>)
           \/ contains(url_lower, <<"m", "i", "s", "t", "r", "a", "l", ".", "a", "i">>)
           \/ contains(url_lower, <<"c", "o", "h", "e", "r", "e", ".", "c", "o", "m">>)
           \/ contains(url_lower, <<"h", "u", "g", "g", "i", "n", "g", "f", "a", "c", "e", ".", "c", "o">>)
           \/ contains(url_lower, <<"o", "l", "l", "a", "m", "a">>)
           \/ contains(url_lower, <<"r", "e", "p", "l", "i", "c", "a", "t", "e", ".", "c", "o", "m">>)
           \/ contains(url_lower, <<"t", "o", "g", "e", "t", "h", "e", "r", ".", "a", "i">>)
           \/ contains(url_lower, <<"g", "r", "o", "q", ".", "c", "o", "m">>)
           \/ contains(url_lower, <<"a", "n", "y", "s", "c", "a", "l", "e", ".", "c", "o", "m">>)
           \/ contains(url_lower, <<"p", "e", "r", "p", "l", "e", "x", "i", "t", "y", ".", "a", "i">>)
           \/ contains(url_lower, <<"d", "e", "e", "p", "s", "e", "e", "k">>)
           \/ contains(url_lower, <<"m", "e", "t", "a", ".", "a", "i">>)
           \/ (contains(combined, <<"l", "l", "a", "m", "a">>) /\ (contains(combined, <<"m", "o", "d", "e", "l">>) \/ contains(combined, <<"m", "e", "t", "a">>) \/ contains(combined, <<"a", "i">>)))
           \/ contains(combined, <<"g", "p", "t", "-", "4">>)
           \/ contains(combined, <<"g", "p", "t", "-", "3">>)
           \/ contains(combined, <<"c", "h", "a", "t", "g", "p", "t">>)
           \/ (contains(combined, <<"c", "l", "a", "u", "d", "e">>) /\ contains(combined, <<"a", "n", "t", "h", "r", "o", "p", "i", "c">>))
           \/ (contains(combined, <<"g", "e", "m", "i", "n", "i">>) /\ contains(combined, <<"g", "o", "o", "g", "l", "e">>))
           \/ (contains(combined, <<"m", "i", "s", "t", "r", "a", "l">>) /\ contains(combined, <<"m", "o", "d", "e", "l">>))
           \/ contains(combined, <<"m", "i", "x", "t", "r", "a", "l">>)
           \/ (contains(combined, <<"p", "h", "i", "-">>) /\ contains(combined, <<"m", "i", "c", "r", "o", "s", "o", "f", "t">>))
           \/ (contains(combined, <<"f", "a", "l", "c", "o", "n">>) /\ contains(combined, <<"m", "o", "d", "e", "l">>))
           \/ contains(combined, <<"q", "w", "e", "n">>)
           \/ contains(combined, <<"y", "i", " ", "m", "o", "d", "e", "l">>)
           \/ contains(combined, <<"c", "o", "m", "m", "a", "n", "d", "-", "r">>)
           \/ contains(combined, <<"l", "a", "r", "g", "e", " ", "l", "a", "n", "g", "u", "a", "g", "e", " ", "m", "o", "d", "e", "l">>)
           \/ contains(combined, <<"f", "o", "u", "n", "d", "a", "t", "i", "o", "n", " ", "m", "o", "d", "e", "l">>)
      [] cat = "AIMLOps" ->    \* bookmarks.rs:399-421
           \/ contains(url_lower, <<"m", "l", "f", "l", "o", "w">>)
           \/ contains(url_lower, <<"w", "a", "n", "d", "b", ".", "a", "i">>)
           \/ contains(url_lower, <<"w", "e", "i", "g", "h", "t", "s", "-", "a", "n", "d", "-", "b", "i", "a", "s", "e", "s">>)
           \/ contains(url_lower, <<"n", "e", "p", "t", "u", "n", "e", ".", "a", "i">>)
           \/ contains(url_lower, <<"c", "o", "m", "e", "t", ".", "m", "l">>)
           \/ contains(url_lower, <<"d", "a", "g", "s", "h", "u", "b">>)
           \/ contains(url_lower, <<"d", "v", "c", ".", "o", "r", "g">>)
           \/ contains(url_lower, <<"k", "u", "b", "e", "f", "l", "o", "w">>)
           \/ contains(url_lower, <<"b", "e", "n", "t", "o", "m", "l">>)
           \/ contains(url_lower, <<"s", "e", "l", "d", "o", "n">>)
           \/ contains(url_lower, <<"r", "a", "y", ".", "i", "o">>)
           \/ contains(url_lower, <<"m", "o", "d", "a", "l", ".", "c", "o", "m">>)
           \/ contains(combined, <<"m", "l", "o", "p", "s">>)
           \/ contains(combined, <<"m", "l", " ", "o", "p", "s">>)
           \/ contains(combined, <<"m", "o", "d", "e", "l", " ", "d", "e", "p", "l", "o", "y", "m", "e", "n", "t">>)
           \/ contains(combined, <<"m", "o", "d", "e", "l", " ", "s", "e", "r", "v", "i", "n", "g">>)
           \/ contains(combined, <<"m", "o", "d", "e", "l", " ", "m", "o", "n", "i", "t", "o", "r", "i", "n", "g">>)
           \/ contains(combined, <<"e", "x", "p", "e", "r", "i", "m", "e", "n", "t", " ", "t", "r", "a", "c", "k", "i", "n", "g">>)
           \/ contains(combined, <<"m", "o", "d", "e", "l", " ", "r", "e", "g", "i", "s", "t", "r", "y">>)
           \/ contains(combined, <<"f", "e", "a", "t", "u", "r", "e", " ", "s", "t", "o", "r", "e">>)
           \/ contains(combined, <<"m", "l", " ", "p", "i", "p", "e", "l", "i", "n", "e">>)
      [] cat = "AIComputerVision" ->    \* bookmarks.rs:425-448
           \/ contains(combined, <<"c", "o", "m", "p", "u", "t", "e", "r", " ", "v", "i", "s", "i", "o", "n">>)
           \/ contains(combined, <<"i", "m", "a", "g", "e", " ", "r", "e", "c", "o", "g", "n", "i", "t", "i", "o", "n">>)
           \/ contains(combined, <<"o", "b", "j", "e", "c", "t", " ", "d", "e", "t", "e", "c", "t", "i", "o", "n">>)
           \/ contains(combined, <<"i", "m", "a", "g", "e", " ", "s", "e", "g", "m", "e", "n", "t", "a", "t", "i", "o", "n">>)
           \/ (contains(combined, <<"y", "o", "l", "o">>) /\ contains(combined, <<"d", "e", "t", "e", "c", "t", "i", "o", "n">>))
           \/ contains(combined, <<"o", "p", "e", "n", "c", "v">>)
           \/ contains(combined, <<"s", "t", "a", "b", "l", "e", " ", "d", "i", "f", "f", "u", "s", "i", "o", "n">>)
           \/ contains(combined, <<"m", "i", "d", "j", "o", "u", "r", "n", "e", "y">>)
           \/ contains(combined, <<"d", "a", "l", "l", "-", "e">>)
           \/ contains(combined, <<"i", "m", "a", "g", "e", "n">>)
           \/ contains(combined, <<"d", "i", "f", "f", "u", "s", "i", "o", "n", " ", "m", "o", "d", "e", "l">>)
           \/ contains(combined, <<"i", "m", "a", "g", "e", " ", "g", "e", "n", "e", "r", "a", "t", "i", "o", "n">>)
           \/ contains(combined, <<"t", "e", "x", "t", "-", "t", "o", "-", "i", "m", "a", "g", "e">>)
           \/ contains(combined, <<"i", "m", "a", "g", "e", "-", "t", "o", "-", "i", "m", "a", "g", "e">>)
           \/ contains(combined, <<"i", "n", "p", "a", "i", "n", "t", "i", "n", "g">>)
           \/ contains(combined, <<"c", "o", "n", "t", "r", "o", "l", "n", "e", "t">>)
           \/ contains(combined, <<"c", "o", "m", "f", "y", "u", "i">>)
           \/ contains(url_lower, <<"c", "i", "v", "i", "t", "a", "i">>)
           \/ contains(url_lower, <<"s", "t", "a", "b", "i", "l", "i", "t", "y", ".", "a", "i">>)
           \/ contains(url_lower, <<"r", "u", "n", "w", "a", "y">>)
           \/ contains(combined, <<"v", "i", "s", "i", "o", "n", " ", "m", "o", "d", "e", "l">>)
           \/ (contains(combined, <<"m", "u", "l", "t", "i", "m", "o", "d", "a", "l">>) /\ contains(combined, <<"v", "i", "s", "i", "o", "n">>))
      [] cat = "AINLP" ->    \* bookmarks.rs:452-468
           \/ contains(combined, <<"n", "a", "t", "u", "r", "a", "l", " ", "l", "a", "n", "g", "u", "a", "g", "e", " ", "p", "r", "o", "c", "e", "s", "s", "i", "n", "g">>)
           \/ contains(combined, <<"n", "l", "p", " ">>)
           \/ contains(combined, <<" ", "n", "l", "p">>)
           \/ contains(combined, <<"t", "e", "x", "t", " ", "c", "l", "a", "s", "s", "i", "f", "i", "c", "a", "t", "i", "o", "n">>)
           \/ contains(combined, <<"n", "a", "m", "e", "d", " ", "e", "n", "t", "i", "t", "y">>)
           \/ contains(combined, <<"n", "e", "r", " ">>)
           \/ contains(combined, <<"s", "e", "n", "t", "i", "m", "e", "n", "t", " ", "a", "n", "a", "l", "y", "s", "i", "s">>)
           \/ contains(combined, <<"t", "e", "x", "t", " ", "m", "i", "n", "i", "n", "g">>)
           \/ contains(combined, <<"s", "p", "a", "c", "y">>)
           \/ contains(combined, <<"n", "l", "t", "k">>)
           \/ contains(combined, <<"t", "o", "k", "e", "n", "i", "z">>)
           \/ contains(combined, <<"p", "a", "r", "t", "-", "o", "f", "-", "s", "p", "e", "e", "c", "h">>)
           \/ contains(combined, <<"d", "e", "p", "e", "n", "d", "e", "n", "c", "y", " ", "p", "a", "r", "s", "i", "n", "g">>)
           \/ contains(combined, <<"t", "e", "x", "t", " ", "e", "x", "t", "r", "a", "c", "t", "i", "o", "n">>)
           \/ contains(combined, <<"i", "n", "f", "o", "r", "m", "a", "t", "i", "o", "n", " ", "e", "x", "t", "r", "a", "c", "t", "i", "o", "n">>)
      [] cat = "AIResearch" ->    \* bookmarks.rs:472-488
           \/ (contains(url_lower, <<"a", "r", "x", "i", "v", ".", "o", "r", "g">>) /\ contains(combined, <<"a", "i">>))
           \/ (contains(url_lower, <<"a", "r", "x", "i", "v", ".", "o", "r", "g">>) /\ contains(combined, <<"m", "a", "c", "h", "i", "n", "e", " ", "l", "e", "a", "r", "n", "i", "n", "g">>))
           \/ (contains(url_lower, <<"a", "r", "x", "i", "v", ".", "o", "r", "g">>) /\ contains(combined, <<"l", "l", "m">>))
           \/ (contains(url_lower, <<"a", "r", "x", "i", "v", ".", "o", "r", "g">>) /\ contains(combined, <<"n", "e", "u", "r", "a", "l">>))
           \/ (contains(url_lower, <<"a", "r", "x", "i", "v", ".", "o", "r", "g">>) /\ contains(combined, <<"t", "r", "a", "n", "s", "f", "o", "r", "m", "e", "r">>))
           \/ contains(url_lower, <<"p", "a", "p", "e", "r", "s", "w", "i", "t", "h", "c", "o", "d", "e", ".", "c", "o", "m">>)
           \/ (contains(url_lower, <<"s", "e", "m", "a", "n", "t", "i", "c", "s", "c", "h", "o", "l", "a", "r", ".", "o", "r", "g">>) /\ contains(combined, <<"a", "i">>))
           \/ contains(url_lower, <<"c", "o", "n", "n", "e", "c", "t", "e", "d", "p", "a", "p", "e", "r", "s", ".", "c", "o", "m">>)
           \/ (contains(combined, <<"r", "e", "s", "e", "a", "r", "c", "h", " ", "p", "a", "p", "e", "r">>) /\ contains(combined, <<"a", "i">>))
           \/ contains(combined, <<"a", "i", " ", "r", "e", "s", "e", "a", "r", "c", "h">>)
           \/ contains(combined, <<"m", "l", " ", "r", "e", "s", "e", "a", "r", "c", "h">>)
           \/ contains(url_lower, <<"d", "e", "e", "p", "m", "i", "n", "d", ".", "c", "o", "m">>)
           \/ (contains(url_lower, <<"r", "e", "s", "e", "a", "r", "c", "h", ".", "g", "o", "o", "g", "l", "e">>) /\ contains(combined, <<"a", "i">>))
           \/ contains(url_lower, <<"a", "i", ".", "m", "e", "t", "a", ".", "c", "o", "m">>)
           \/ (contains(url_lower, <<"r", "e", "s", "e", "a", "r", "c", "h", ".", "m", "i", "c", "r", "o", "s", "o", "f", "t", ".", "c", "o", "m">>) /\ contains(combined, <<"a", "i">>))
      [] cat = "AIGeneral" ->    \* bookmarks.rs:492-515
           \/ contains(combined, <<"a", "r", "t", "i", "f", "i", "c", "i", "a", "l", " ", "i", "n", "t", "e", "l", "l", "i", "g", "e", "n", "c", "e">>)
           \/ contains(combined, <<"m", "a", "c", "h", "i", "n", "e", " ", "l", "e", "a", "r", "n", "i", "n", "g">>)
           \/ contains(combined, <<"d", "e", "e", "p", " ", "l", "e", "a", "r", "n", "i", "n", "g">>)
           \/ contains(combined, <<"n", "e", "u", "r", "a", "l", " ", "n", "e", "t", "w", "o", "r", "k">>)
           \/ (contains(combined, <<"t", "r", "a", "n", "s", "f", "o", "r", "m", "e", "r">>) /\ (contains(combined, <<"a", "i">>) \/ contains(combined, <<"m", "o", "d", "e", "l">>)))
           \/ contains(combined, <<"t", "e", "n", "s", "o", "r", "f", "l", "o", "w">>)
           \/ contains(combined, <<"p", "y", "t", "o", "r", "c", "h">>)
           \/ contains(combined, <<"k", "e", "r", "a", "s">>)
           \/ contains(combined, <<"s", "c", "i", "k", "i", "t", "-", "l", "e", "a", "r", "n">>)
           \/ contains(combined, <<"s", "k", "l", "e", "a", "r", "n">>)
           \/ contains(url_lower, <<"k", "a", "g", "g", "l", "e", ".", "c", "o", "m">>)
           \/ contains(url_lower, <<"f", "a", "s", "t", ".", "a", "i">>)
           \/ contains(url_lower, <<"d", "e", "e", "p", "l", "e", "a", "r", "n", "i", "n", "g", ".", "a", "i">>)
           \/ contains(combined, <<"a", "i", " ", "t", "o", "o", "l">>)
           \/ contains(combined, <<"m", "l", " ", "t", "o", "o", "l">>)
           \/ contains(combined, <<"g", "e", "n", "e", "r", "a", "t", "i", "v", "e", " ", "a", "i">>)
           \/ contains(combined, <<"g", "e", "n", " ", "a", "i">>)
           \/ contains(combined, <<"l", "a", "n", "g", "c", "h", "a", "i", "n">>)
           \/ contains(combined, <<"l", "l", "a", "m", "a", "i", "n", "d", "e", "x">>)
           \/ (contains(combined, <<"i", "n", "f", "e", "r", "e", "n", "c", "e">>) /\ (contains(combined, <<"m", "o", "d", "e", "l">>) \/ contains(combined, <<"a", "i">>)))
      [] cat = "FinanceCrypto" ->    \* bookmarks.rs:523-591
           \/ contains(url_lower, <<"c", "o", "i", "n", "b", "a", "s", "e", ".", "c", "o", "m">>)
           \/ contains(url_lower, <<"b", "i", "n", "a", "n", "c", "e", ".", "c", "o", "m">>)
           \/ contains(url_lower, <<"k", "r", "a", "k", "e", "n", ".", "c", "o", "m">>)
           \/ contains(url_lower, <<"g", "e", "m", "i", "n", "i", ".", "c", "o", "m">>)
           \/ contains(url_lower, <<"f", "t", "x", ".", "c", "o", "m">>)
           \/ contains(url_lower, <<"k", "u", "c", "o", "i", "n", ".", "c", "o", "m">>)
           \/ contains(url_lower, <<"h", "u", "o", "b", "i">>)
           \/ contains(url_lower, <<"o", "k", "x", ".", "c", "o", "m">>)
           \/ contains(url_lower, <<"b", "y", "b", "i", "t", ".", "c", "o", "m">>)
           \/ contains(url_lower, <<"b", "i", "t", "s", "t", "a", "m", "p">>)
           \/ contains(url_lower, <<"b", "i", "t", "f", "i", "n", "e", "x">>)
           \/ contains(url_lower, <<"b", "i", "t", "m", "e", "x">>)
           \/ contains(url_lower, <<"c", "o", "i", "n", "m", "a", "r", "k", "e", "t", "c", "a", "p", ".", "c", "o", "m">>)
           \/ contains(url_lower, <<"c", "o", "i", "n", "g", "e", "c", "k", "o", ".", "c", "o", "m">>)
           \/ contains(url_lower, <<"t", "r", "a", "d", "i", "n", "g", "v", "i", "e", "w", ".", "c", "o", "m">>)
           \/ contains(url_lower, <<"d", "e", "x", "t", "o", "o", "l", "s", ".", "i", "o">>)
           \/ contains(url_lower, <<"e", "t", "h", "e", "r", "s", "c", "a", "n", ".", "i", "o">>)
           \/ contains(url_lower, <<"b", "s", "c", "s", "c", "a", "n", ".", "c", "o", "m">>)
           \/ contains(url_lower, <<"p", "o", "l", "y", "g", "o", "n", "s", "c", "a", "n", ".", "c", "o", "m">>)
           \/ contains(url_lower, <<"u", "n", "i", "s", "w", "a", "p">>)
           \/ contains(url_lower, <<"s", "u", "s", "h", "i", "s", "w", "a", "p">>)
           \/ contains(url_lower, <<"p", "a", "n", "c", "a", "k", "e", "s", "w", "a", "p">>)
           \/ contains(url_lower, <<"m", "e", "t", "a", "m", "a", "s", "k", ".", "i", "o">>)
           \/ contains(url_lower, <<"o", "p", "e", "n", "s", "e", "a", ".", "i", "o">>)
           \/ contains(url_lower, <<"r", "a", "r", "i", "b", "l", "e", ".", "c", "o", "m">>)
           \/ contains(url_lower, <<"l", "o", "o", "k", "s", "r", "a", "r", "e">>)
           \/ contains(combined, <<"b", "i", "t", "c", "o", "i", "n">>)
           \/ contains(combined, <<"b", "t", "c", " ">>)
           \/ contains(combined, <<"e", "t", "h", "e", "r", "e", "u", "m">>)
           \/ contains(combined, <<"e", "t", "h", " ">>)
           \/ contains(combined, <<"c", "r", "y", "p", "t", "o">>)
           \/ contains(combined, <<"b", "l", "o", "c", "k", "c", "h", "a", "i", "n">>)
           \/ contains(combined, <<"d", "e", "f", "i">>)
           \/ contains(combined, <<"n", "f", "t">>)
           \/ contains(combined, <<"i", "c", "o", " ">>)
           \/ contains(combined, <<"t", "o", "k", "e", "n", " ", "s", "a", "l", "e">>)
           \/ contains(combined, <<"a", "i", "r", "d", "r", "o", "p">>)
           \/ contains(combined, <<"s", "t", "a", "k", "i", "n", "g">>)
           \/ contains(combined, <<"y", "i", "e", "l", "d", " ", "f", "a", "r", "m", "i", "n", "g">>)
           \/ contains(combined, <<"l", "i", "q", "u", "i", "d", "i", "t", "y", " ", "p", "o", "o", "l">>)
           \/ contains(combined, <<"s", "m", "a", "r", "t", " ", "c", "o", "n", "t", "r", "a", "c", "t">>)
           \/ (contains(combined, <<"w", "a", "l", "l", "e", "t">>) /\ (contains(combined, <<"c", "r", "y", "p", "t", "o">>) \/ contains(combined, <<"b", "i", "t", "c", "o", "i", "n">>) \/ contains(combined, <<"e", "t", "h", "e", "r", "e", "u", "m">>)))
           \/ (contains(combined, <<"e", "x", "c", "h", "a", "n", "g", "e">>) /\ (contains(combined, <<"c", "r", "y", "p", "t", "o">>) \/ contains(combined, <<"c", "o", "i", "n">>) \/ contains(combined, <<"t", "o", "k", "e", "n">>)))
           \/ contains(combined, <<"a", "l", "t", "c", "o", "i", "n">>)
           \/ contains(combined, <<"m", "e", "m", "e", "c", "o", "i", "n">>)
           \/ contains(combined, <<"c", "h", "a", "r", "t", " ", "p", "a", "t", "t", "e", "r", "n">>)
           \/ contains(combined, <<"c", "a", "n", "d", "l", "e", "s", "t", "i", "c", "k">>)
           \/ contains(combined, <<"t", "r", "a", "d", "i", "n", "g", " ", "s", "i", "g", "n", "a", "l">>)
           \/ (contains(combined, <<"t", "e", "c", "h", "n", "i", "c", "a", "l", " ", "a", "n", "a", "l", "y", "s", "i", "s">>) /\ (contains(combined, <<"c", "r", "y", "p", "t", "o">>) \/ contains(combined, <<"c", "o", "i", "n">>)))
           \/ contains(combined, <<"s", "o", "l", "a", "n", "a">>)
           \/ contains(combined, <<"c", "a", "r", "d", "a", "n", "o">>)
           \/ contains(combined, <<"p", "o", "l", "k", "a", "d", "o", "t">>)
           \/ contains(combined, <<"a", "v", "a", "l", "a", "n", "c", "h", "e">>)
           \/ (contains(combined, <<"p", "o", "l", "y", "g", "o", "n">>) /\ ~contains(combined, <<"c", "s", "s">>))
           \/ contains(combined, <<"a", "r", "b", "i", "t", "r", "u", "m">>)
           \/ contains(combined, <<"o", "p", "t", "i", "m", "i", "s", "m">>)
           \/ contains(combined, <<"l", "a", "y", "e", "r", " ", "2">>)
           \/ contains(combined, <<"w", "e", "b", "3">>)
           \/ contains(combined, <<"d", "a", "p", "p">>)
           \/ contains(combined, <<"d", "e", "c", "e", "n", "t", "r", "a", "l", "i", "z", "e", "d">>)
      [] cat = "FinanceTrading" ->    \* bookmarks.rs:595-622
           \/ contains(url_lower, <<"r", "o", "b", "i", "n", "h", "o", "o", "d", ".", "c", "o", "m">>)
           \/ contains(url_lower, <<"e", "t", "r", "a", "d", "e", ".", "c", "o", "m">>)
           \/ contains(url_lower, <<"t", "d", "a", "m", "e", "r", "i", "t", "r", "a", "d", "e", ".", "c", "o", "m">>)
           \/ contains(url_lower, <<"t", "h", "i", "n", "k", "o", "r", "s", "w", "i", "m">>)
           \/ contains(url_lower, <<"i", "n", "t", "e", "r", "a", "c", "t", "i", "v", "e", "b", "r", "o", "k", "e", "r", "s">>)
           \/ contains(url_lower, <<"s", "t", "o", "c", "k", "c", "h", "a", "r", "t", "s", ".", "c", "o", "m">>)
           \/ contains(url_lower, <<"f", "i", "n", "v", "i", "z", ".", "c", "o", "m">>)
           \/ contains(url_lower, <<"y", "a", "h", "o", "o", ".", "c", "o", "m", "/", "f", "i", "n", "a", "n", "c", "e">>)
           \/ contains(url_lower, <<"f", "i", "n", "a", "n", "c", "e", ".", "y", "a", "h", "o", "o", ".", "c", "o", "m">>)
           \/ contains(url_lower, <<"m", "a", "r", "k", "e", "t", "w", "a", "t", "c", "h", ".", "c", "o", "m">>)
           \/ contains(url_lower, <<"s", "e", "e", "k", "i", "n", "g", "a", "l", "p", "h", "a", ".", "c", "o", "m">>)
           \/ contains(url_lower, <<"i", "n", "v", "e", "s", "t", "o", "p", "e", "d", "i", "a", ".", "c", "o", "m">>)
           \/ contains(url_lower, <<"m", "o", "r", "n", "i", "n", "g", "s", "t", "a", "r", ".", "c", "o", "m">>)
           \/ contains(combined, <<"s", "t", "o", "c", "k", " ", "m", "a", "r", "k", "e", "t">>)
           \/ contains(combined, <<"s", "t", "o", "c", "k", " ", "t", "r", "a", "d", "i", "n", "g">>)
           \/ contains(combined, <<"f", "o", "r", "e", "x">>)
           \/ contains(combined, <<"o", "p", "t", "i", "o", "n", "s", " ", "t", "r", "a", "d", "i", "n", "g">>)
           \/ contains(combined, <<"f", "u", "t", "u", "r", "e", "s", " ", "t", "r", "a", "d", "i", "n", "g">>)
           \/ contains(combined, <<"d", "i", "v", "i", "d", "e", "n", "d">>)
           \/ (contains(combined, <<"p", "o", "r", "t", "f", "o", "l", "i", "o">>) /\ contains(combined, <<"i", "n", "v", "e", "s", "t">>))
           \/ contains(combined, <<"m", "a", "r", "k", "e", "t", " ", "a", "n", "a", "l", "y", "s", "i", "s">>)
           \/ contains(combined, <<"b", "u", "l", "l", " ", "m", "a", "r", "k", "e", "t">>)
           \/ contains(combined, <<"b", "e", "a", "r", " ", "m", "a", "r", "k", "e", "t">>)
           \/ contains(combined, <<"e", "a", "r", "n", "i", "n", "g", "s", " ", "r", "e", "p", "o", "r", "t">>)
           \/ contains(combined, <<"e", "t", "f", " ">>)
           \/ contains(combined, <<"i", "n", "d", "e", "x", " ", "f", "u", "n", "d">>)
      [] cat = "FinancePersonal" ->    \* bookmarks.rs:626-646
           \/ contains(url_lower, <<"m", "i", "n", "t", ".", "c", "o", "m">>)
           \/ contains(url_lower, <<"y", "n", "a", "b", ".", "c", "o", "m">>)
           \/ contains(url_lower, <<"p", "e", "r", "s", "o", "n", "a", "l", "c", "a", "p", "i", "t", "a", "l", ".", "c", "o", "m">>)
           \/ contains(url_lower, <<"c", "r", "e", "d", "i", "t", "k", "a", "r", "m", "a", ".", "c", "o", "m">>)
           \/ contains(url_lower, <<"n", "e", "r", "d", "w", "a", "l", "l", "e", "t", ".", "c", "o", "m">>)
           \/ contains(url_lower, <<"b", "a", "n", "k", "r", "a", "t", "e", ".", "c", "o", "m">>)
           \/ contains(combined, <<"b", "u", "d", "g", "e", "t">>)
           \/ contains(combined, <<"s", "a", "v", "i", "n", "g", " ", "m", "o", "n", "e", "y">>)
           \/ contains(combined, <<"r", "e", "t", "i", "r", "e", "m", "e", "n", "t">>)
           \/ contains(combined, <<"4", "0", "1", "k">>)
           \/ contains(combined, <<"i", "r", "a", " ">>)
           \/ contains(combined, <<"c", "r", "e", "d", "i", "t", " ", "s", "c", "o", "r", "e">>)
           \/ (contains(combined, <<"c", "r", "e", "d", "i", "t", " ", "c", "a", "r", "d">>) /\ ~contains(combined, <<"a", "p", "i">>))
           \/ contains(combined, <<"m", "o", "r", "t", "g", "a", "g", "e">>)
           \/ contains(combined, <<"d", "e", "b", "t">>)
           \/ contains(combined, <<"t", "a", "x", " ", "r", "e", "t", "u", "r", "n">>)
           \/ contains(combined, <<"n", "e", "t", " ", "w", "o", "r", "t", "h">>)
           \/ contains(combined, <<"f", "i", "n", "a", "n", "c", "i", "a", "l", " ", "p", "l", "a", "n", "n", "i", "n", "g">>)
           \/ contains(combined, <<"e", "m", "e", "r", "g", "e", "n", "c", "y", " ", "f", "u", "n", "d">>)
      [] cat = "FinanceGeneral" ->    \* bookmarks.rs:650-660
           \/ contains(url_lower, <<"b", "a", "n", "k">>)
           \/ contains(url_lower, <<"p", "a", "y", "p", "a", "l", ".", "c", "o", "m">>)
           \/ contains(url_lower, <<"v", "e", "n", "m", "o", ".", "c", "o", "m">>)
           \/ contains(url_lower, <<"f", "i", "d", "e", "l", "i", "t", "y", ".", "c", "o", "m">>)
           \/ contains(url_lower, <<"s", "c", "h", "w", "a", "b", ".", "c", "o", "m">>)
           \/ contains(url_lower, <<"v", "a", "n", "g", "u", "a", "r", "d", ".", "c", "o", "m">>)
           \/ contains(url_lower, <<"f", "i", "n", "a", "n", "c", "e", ".">>)
           \/ (contains(combined, <<"i", "n", "v", "e", "s", "t">>) /\ ~contains(combined, <<"i", "n", "v", "e", "s", "t", "i", "g", "a", "t", "e">>))
           \/ contains(combined, <<"f", "i", "n", "a", "n", "c", "i", "a", "l">>)
      [] cat = "PersonalDevelopment" ->    \* bookmarks.rs:666-700
           \/ contains(combined, <<"h", "a", "b", "i", "t">>)
           \/ (contains(combined, <<"p", "r", "o", "d", "u", "c", "t", "i", "v", "i", "t", "y">>) /\ ~contains(combined, <<"d", "e", "v", "e", "l", "o", "p", "e", "r">>) /\ ~contains(combined, <<"t", "o", "o", "l">>))
           \/ contains(combined, <<"s", "e", "l", "f", " ", "i", "m", "p", "r", "o", "v", "e", "m", "e", "n", "t">>)
           \/ contains(combined, <<"s", "e", "l", "f", "-", "i", "m", "p", "r", "o", "v", "e", "m", "e", "n", "t">>)
           \/ contains(combined, <<"p", "e", "r", "s", "o", "n", "a", "l", " ", "g", "r", "o", "w", "t", "h">>)
           \/ contains(combined, <<"m", "o", "t", "i", "v", "a", "t", "i", "o", "n">>)
           \/ contains(combined, <<"m", "i", "n", "d", "s", "e", "t">>)
           \/ contains(combined, <<"g", "o", "a", "l", " ", "s", "e", "t", "t", "i", "n", "g">>)
           \/ (contains(combined, <<"t", "i", "m", "e", " ", "m", "a", "n", "a", "g", "e", "m", "e", "n", "t">>) /\ ~contains(combined, <<"p", "r", "o", "j", "e", "c", "t">>))
           \/ contains(combined, <<"l", "i", "f", "e", " ", "h", "a", "c", "k">>)
           \/ contains(combined, <<"m", "o", "r", "n", "i", "n", "g", " ", "r", "o", "u", "t", "i", "n", "e">>)
           \/ contains(combined, <<"m", "e", "d", "i", "t", "a", "t", "i", "o", "n">>)
           \/ contains(combined, <<"m", "i", "n", "d", "f", "u", "l", "n", "e", "s", "s">>)
           \/ contains(combined, <<"j", "o", "u", "r", "n", "a", "l", "i", "n", "g">>)
           \/ contains(combined, <<"g", "r", "a", "t", "i", "t", "u", "d", "e">>)
           \/ contains(combined, <<"s", "t", "o", "i", "c", "i", "s", "m">>)
           \/ contains(combined, <<"a", "t", "o", "m", "i", "c", " ", "h", "a", "b", "i", "t", "s">>)
           \/ contains(combined, <<"d", "e", "e", "p", " ", "w", "o", "r", "k">>)
           \/ contains(combined, <<"g", "e", "t", "t", "i", "n", "g", " ", "t", "h", "i", "n", "g", "s", " ", "d", "o", "n", "e">>)
           \/ contains(combined, <<"g", "t", "d", " ">>)
           \/ contains(combined, <<"p", "o", "m", "o", "d", "o", "r", "o">>)
           \/ contains(combined, <<"p", "r", "o", "c", "r", "a", "s", "t", "i", "n", "a", "t", "i", "o", "n">>)
           \/ contains(combined, <<"d", "i", "s", "c", "i", "p", "l", "i", "n", "e">>)
           \/ contains(combined, <<"s", "e", "l", "f", " ", "h", "e", "l", "p">>)
           \/ contains(combined, <<"s", "e", "l", "f", "-", "h", "e", "l", "p">>)
           \/ contains(combined, <<"m", "e", "m", "o", "r", "y", " ", "t", "e", "c", "h", "n", "i", "q", "u", "e">>)
           \/ contains(combined, <<"s", "p", "e", "e", "d", " ", "r", "e", "a", "d", "i", "n", "g">>)
           \/ contains(combined, <<"l", "e", "a", "r", "n", "i", "n", "g", " ", "h", "o", "w", " ", "t", "o", " ", "l", "e", "a", "r", "n">>)
           \/ contains(combined, <<"c", "a", "r", "e", "e", "r", " ", "g", "r", "o", "w", "t", "h">>)
           \/ contains(combined, <<"p", "u", "b", "l", "i", "c", " ", "s", "p", "e", "a", "k", "i", "n", "g">>)
           \/ contains(combined, <<"e", "m", "o", "t", "i", "o", "n", "a", "l", " ", "i", "n", "t", "e", "l", "l", "i", "g", "e", "n", "c", "e">>)
      [] cat = "Shopping" ->    \* bookmarks.rs:708-724
           \/ contains(url_lower, <<"a", "m", "a", "z", "o", "n", ".">>)
           \/ contains(url_lower, <<"e", "b", "a", "y", ".">>)
           \/ contains(url_lower, <<"e", "t", "s", "y", ".", "c", "o", "m">>)
           \/ contains(url_lower, <<"a", "l", "i", "e", "x", "p", "r", "e", "s", "s", ".", "c", "o", "m">>)
           \/ contains(url_lower, <<"w", "a", "l", "m", "a", "r", "t", ".", "c", "o", "m">>)
           \/ contains(url_lower, <<"t", "a", "r", "g", "e", "t", ".", "c", "o", "m">>)
           \/ contains(url_lower, <<"b", "e", "s", "t", "b", "u", "y", ".", "c", "o", "m">>)
           \/ contains(url_lower, <<"n", "e", "w", "e", "g", "g", ".", "c", "o", "m">>)
           \/ contains(url_lower, <<"/", "c", "a", "r", "t">>)
           \/ contains(url_lower, <<"/", "c", "h", "e", "c", "k", "o", "u", "t">>)
           \/ contains(combined, <<"b", "u", "y", " ", "n", "o", "w">>)
           \/ contains(combined, <<"a", "d", "d", " ", "t", "o", " ", "c", "a", "r", "t">>)
           \/ contains(combined, <<"s", "h", "o", "p", "p", "i", "n", "g">>)
           \/ contains(combined, <<"d", "i", "s", "c", "o", "u", "n", "t", " ", "c", "o", "d", "e">>)
           \/ contains(combined, <<"c", "o", "u", "p", "o", "n">>)
      [] cat = "Video" ->    \* bookmarks.rs:728-734
           \/ contains(url_lower, <<"y", "o", "u", "t", "u", "b", "e", ".", "c", "o", "m">>)
           \/ contains(url_lower, <<"y", "o", "u", "t", "u", ".", "b", "e">>)
           \/ contains(url_lower, <<"v", "i", "m", "e", "o", ".", "c", "o", "m">>)
           \/ contains(url_lower, <<"d", "a", "i", "l", "y", "m", "o", "t", "i", "o", "n", ".", "c", "o", "m">>)
           \/ contains(url_lower, <<"t", "w", "i", "t", "c", "h", ".", "t", "v">>)
      [] cat = "Social" ->    \* bookmarks.rs:738-756
           \/ contains(url_lower, <<"f", "a", "c", "e", "b", "o", "o", "k", ".", "c", "o", "m">>)
           \/ contains(url_lower, <<"t", "w", "i", "t", "t", "e", "r", ".", "c", "o", "m">>)
           \/ contains(url_lower, <<"x", ".", "c", "o", "m">>)
           \/ contains(url_lower, <<"i", "n", "s", "t", "a", "g", "r", "a", "m", ".", "c", "o", "m">>)
           \/ contains(url_lower, <<"l", "i", "n", "k", "e", "d", "i", "n", ".", "c", "o", "m">>)
           \/ contains(url_lower, <<"r", "e", "d", "d", "i", "t", ".", "c", "o", "m">>)
           \/ contains(url_lower, <<"d", "i", "s", "c", "o", "r", "d", ".", "c", "o", "m">>)
           \/ contains(url_lower, <<"s", "l", "a", "c", "k", ".", "c", "o", "m">>)
           \/ contains(url_lower, <<"t", "e", "l", "e", "g", "r", "a", "m", ".", "o", "r", "g">>)
           \/ contains(url_lower, <<"w", "h", "a", "t", "s", "a", "p", "p", ".", "c", "o", "m">>)
           \/ contains(url_lower, <<"s", "n", "a", "p", "c", "h", "a", "t", ".", "c", "o", "m">>)
           \/ contains(url_lower, <<"t", "i", "k", "t", "o", "k", ".", "c", "o", "m">>)
           \/ contains(url_lower, <<"p", "i", "n", "t", "e", "r", "e", "s", "t", ".", "c", "o", "m">>)
           \/ contains(url_lower, <<"t", "u", "m", "b", "l", "r", ".", "c", "o", "m">>)
           \/ contains(url_lower, <<"m", "a", "s", "t", "o", "d", "o", "n">>)
           \/ contains(url_lower, <<"t", "h", "r", "e", "a", "d", "s", ".", "n", "e", "t">>)
           \/ contains(url_lower, <<"b", "l", "u", "e", "s", "k", "y">>)
      [] cat = "News" ->    \* bookmarks.rs:760-778
           \/ contains(url_lower, <<"n", "e", "w", "s", ".">>)
           \/ contains(url_lower, <<"b", "b", "c", ".", "c", "o", "m">>)
           \/ contains(url_lower, <<"c", "n", "n", ".", "c", "o", "m">>)
           \/ contains(url_lower, <<"n", "y", "t", "i", "m", "e", "s", ".", "c", "o", "m">>)
           \/ contains(url_lower, <<"w", "a", "s", "h", "i", "n", "g", "t", "o", "n", "p", "o", "s", "t", ".", "c", "o", "m">>)
           \/ contains(url_lower, <<"t", "h", "e", "g", "u", "a", "r", "d", "i", "a", "n", ".", "c", "o", "m">>)
           \/ contains(url_lower, <<"r", "e", "u", "t", "e", "r", "s", ".", "c", "o", "m">>)
           \/ contains(url_lower, <<"a", "p", "n", "e", "w", "s", ".", "c", "o", "m">>)
           \/ contains(url_lower, <<"b", "l", "o", "o", "m", "b", "e", "r", "g", ".", "c", "o", "m">>)
           \/ contains(url_lower, <<"t", "e", "c", "h", "c", "r", "u", "n", "c", "h", ".", "c", "o", "m">>)
           \/ contains(url_lower, <<"t", "h", "e", "v", "e", "r", "g", "e", ".", "c", "o", "m">>)
           \/ contains(url_lower, <<"w", "i", "r", "e", "d", ".", "c", "o", "m">>)
           \/ contains(url_lower, <<"a", "r", "s", "t", "e", "c", "h", "n", "i", "c", "a", ".", "c", "o", "m">>)
           \/ contains(url_lower, <<"e", "n", "g", "a", "d", "g", "e", "t", ".", "c", "o", "m">>)
           \/ contains(url_lower, <<"h", "a", "c", "k", "e", "r", "n", "e", "w", "s">>)
           \/ contains(url_lower, <<"n", "e", "w", "s", ".", "y", "c", "o", "m", "b", "i", "n", "a", "t", "o", "r", ".", "c", "o", "m">>)
           \/ contains(combined, <<"b", "r", "e", "a", "k", "i", "n", "g", " ", "n", "e", "w", "s">>)
      [] cat = "Education" ->    \* bookmarks.rs:782-796
           \/ contains(url_lower, <<"c", "o", "u", "r", "s", "e", "r", "a", ".", "o", "r", "g">>)
           \/ contains(url_lower, <<"u", "d", "e", "m", "y", ".", "c", "o", "m">>)
           \/ contains(url_lower, <<"e", "d", "x", ".", "o", "r", "g">>)
           \/ contains(url_lower, <<"k", "h", "a", "n", "a", "c", "a", "d", "e", "m", "y", ".", "o", "r", "g">>)
           \/ contains(url_lower, <<"s", "k", "i", "l", "l", "s", "h", "a", "r", "e", ".", "c", "o", "m">>)
           \/ contains(url_lower, <<"p", "l", "u", "r", "a", "l", "s", "i", "g", "h", "t", ".", "c", "o", "m">>)
           \/ contains(url_lower, <<"l", "y", "n", "d", "a", ".", "c", "o", "m">>)
           \/ contains(url_lower, <<"c", "o", "d", "e", "c", "a", "d", "e", "m", "y", ".", "c", "o", "m">>)
           \/ contains(url_lower, <<"f", "r", "e", "e", "c", "o", "d", "e", "c", "a", "m", "p", ".", "o", "r", "g">>)
           \/ contains(url_lower, <<".", "e", "d", "u">>)
           \/ contains(url_lower, <<"l", "e", "a", "r", "n", ".">>)
           \/ contains(combined, <<"o", "n", "l", "i", "n", "e", " ", "c", "o", "u", "r", "s", "e">>)
           \/ contains(combined, <<"f", "r", "e", "e", " ", "c", "o", "u", "r", "s", "e">>)
      [] cat = "DevReact" ->    \* bookmarks.rs:804-826
           \/ contains(url_lower, <<"r", "e", "a", "c", "t", "j", "s", ".", "o", "r", "g">>)
           \/ contains(url_lower, <<"r", "e", "a", "c", "t", ".", "d", "e", "v">>)
           \/ contains(url_lower, <<"r", "e", "a", "c", "t", "n", "a", "t", "i", "v", "e", ".", "d", "e", "v">>)
           \/ (contains(combined, <<"r", "e", "a", "c", "t">>) /\ (contains(combined, <<"c", "o", "m", "p", "o", "n", "e", "n", "t">>) \/ contains(combined, <<"h", "o", "o", "k">>) \/ contains(combined, <<"r", "e", "d", "u", "x">>) \/ contains(combined, <<"n", "e", "x", "t", "j", "s">>) \/ contains(combined, <<"n", "e", "x", "t", ".", "j", "s">>) \/ contains(combined, <<"g", "a", "t", "s", "b", "y">>) \/ contains(combined, <<"j", "s", "x">>) \/ contains(combined, <<"s", "t", "a", "t", "e", " ", "m", "a", "n", "a", "g", "e", "m", "e", "n", "t">>)))
           \/ contains(combined, <<"r", "e", "a", "c", "t", " ", "n", "a", "t", "i", "v", "e">>)
           \/ contains(combined, <<"e", "x", "p", "o">>)
           \/ contains(url_lower, <<"n", "e", "x", "t", "j", "s", ".", "o", "r", "g">>)
           \/ contains(combined, <<"u", "s", "e", " ", "e", "f", "f", "e", "c", "t">>)
           \/ contains(combined, <<"u", "s", "e", "s", "t", "a", "t", "e">>)
           \/ contains(combined, <<"u", "s", "e", "m", "e", "m", "o">>)
           \/ contains(combined, <<"z", "u", "s", "t", "a", "n", "d">>)
           \/ contains(combined, <<"t", "a", "n", "s", "t", "a", "c", "k">>)
           \/ contains(combined, <<"r", "e", "a", "c", "t", " ", "q", "u", "e", "r", "y">>)
      [] cat = "DevPython" ->    \* bookmarks.rs:830-849
           \/ contains(url_lower, <<"p", "y", "t", "h", "o", "n", ".", "o", "r", "g">>)
           \/ contains(url_lower, <<"p", "y", "p", "i", ".", "o", "r", "g">>)
           \/ (contains(combined, <<"p", "y", "t", "h", "o", "n">>) /\ (contains(combined, <<"p", "i", "p">>) \/ contains(combined, <<"d", "j", "a", "n", "g", "o">>) \/ contains(combined, <<"f", "l", "a", "s", "k">>) \/ contains(combined, <<"f", "a", "s", "t", "a", "p", "i">>) \/ contains(combined, <<"p", "a", "n", "d", "a", "s">>) \/ contains(combined, <<"n", "u", "m", "p", "y">>) \/ contains(combined, <<"j", "u", "p", "y", "t", "e", "r">>) \/ contains(combined, <<"a", "n", "a", "c", "o", "n", "d", "a">>) \/ contains(combined, <<"v", "i", "r", "t", "u", "a", "l", "e", "n", "v">>) \/ contains(combined, <<"p", "o", "e", "t", "r", "y">>)))
           \/ contains(url_lower, <<"d", "j", "a", "n", "g", "o">>)
           \/ contains(url_lower, <<"f", "l", "a", "s", "k">>)
           \/ contains(url_lower, <<"f", "a", "s", "t", "a", "p", "i">>)
           \/ contains(combined, <<"p", "y", "d", "a", "n", "t", "i", "c">>)
           \/ contains(combined, <<"p", "y", "t", "e", "s", "t">>)
      [] cat = "DevRust" ->    \* bookmarks.rs:853-864
           \/ contains(url_lower, <<"r", "u", "s", "t", "-", "l", "a", "n", "g", ".", "o", "r", "g">>)
           \/ contains(url_lower, <<"c", "r", "a", "t", "e", "s", ".", "i", "o">>)
           \/ (contains(combined, <<"r", "u", "s", "t">>) /\ (contains(combined, <<"c", "a", "r", "g", "o">>) \/ contains(combined, <<"r", "u", "s", "t", "u", "p">>) \/ contains(combined, <<"t", "o", "k", "i", "o">>) \/ contains(combined, <<"a", "c", "t", "i", "x">>) \/ contains(combined, <<"w", "a", "s", "m">>) \/ contains(combined, <<"s", "e", "r", "d", "e">>)))
           \/ contains(combined, <<"r", "u", "s", "t", "a", "c", "e", "a", "n">>)
      [] cat = "DevJava" ->    \* bookmarks.rs:868-880
           \/ (contains(combined, <<"j", "a", "v", "a">>) /\ (contains(combined, <<"s", "p", "r", "i", "n", "g">>) \/ contains(combined, <<"m", "a", "v", "e", "n">>) \/ contains(combined, <<"g", "r", "a", "d", "l", "e">>) \/ contains(combined, <<"j", "v", "m">>) \/ contains(combined, <<"h", "i", "b", "e", "r", "n", "a", "t", "e">>) \/ contains(combined, <<"j", "u", "n", "i", "t">>)))
           \/ contains(combined, <<"k", "o", "t", "l", "i", "n">>)
           \/ contains(url_lower, <<"s", "p", "r", "i", "n", "g", ".", "i", "o">>)
           \/ contains(combined, <<"s", "p", "r", "i", "n", "g", "b", "o", "o", "t">>)
           \/ contains(combined, <<"s", "p", "r", "i", "n", "g", " ", "b", "o", "o", "t">>)
      [] cat = "DevTypeScript" ->    \* bookmarks.rs:884-893
           \/ contains(url_lower, <<"t", "y", "p", "e", "s", "c", "r", "i", "p", "t", "l", "a", "n", "g", ".", "o", "r", "g">>)
           \/ (contains(combined, <<"t", "y", "p", "e", "s", "c", "r", "i", "p", "t">>) /\ (contains(combined, <<"t", "y", "p", "e">>) \/ contains(combined, <<"i", "n", "t", "e", "r", "f", "a", "c", "e">>) \/ contains(combined, <<"g", "e", "n", "e", "r", "i", "c">>) \/ contains(combined, <<"t", "s", "c">>)))
           \/ contains(combined, <<".", "t", "s", " ">>)
           \/ contains(combined, <<".", "t", "s", "x">>)
      [] cat = "DevJavaScript" ->    \* bookmarks.rs:897-914
           \/ contains(url_lower, <<"n", "o", "d", "e", "j", "s", ".", "o", "r", "g">>)
           \/ contains(url_lower, <<"n", "p", "m", "j", "s", ".", "c", "o", "m">>)
           \/ contains(combined, <<"j", "a", "v", "a", "s", "c", "r", "i", "p", "t">>)
           \/ contains(combined, <<"n", "o", "d", "e", ".", "j", "s">>)
           \/ contains(combined, <<"n", "o", "d", "e", "j", "s">>)
           \/ contains(combined, <<"n", "p", "m", " ">>)
           \/ contains(combined, <<"y", "a", "r", "n", " ">>)
           \/ contains(combined, <<"p", "n", "p", "m">>)
           \/ contains(combined, <<"d", "e", "n", "o">>)
           \/ contains(combined, <<"b", "u", "n", " ">>)
           \/ contains(combined, <<"e", "x", "p", "r", "e", "s", "s", ".", "j", "s">>)
           \/ contains(combined, <<"e", "x", "p", "r", "e", "s", "s", "j", "s">>)
           \/ contains(combined, <<"e", "s", "6">>)
           \/ contains(combined, <<"e", "c", "m", "a", "s", "c", "r", "i", "p", "t">>)
           \/ contains(combined, <<"a", "s", "y", "n", "c", " ", "a", "w", "a", "i", "t">>)
           \/ contains(combined, <<"p", "r", "o", "m", "i", "s", "e">>)
      [] cat = "DevCSS" ->    \* bookmarks.rs:918-934
           \/ contains(combined, <<"c", "s", "s">>)
           \/ contains(combined, <<"t", "a", "i", "l", "w", "i", "n", "d">>)
           \/ contains(combined, <<"s", "a", "s", "s">>)
           \/ contains(combined, <<"s", "c", "s", "s">>)
           \/ contains(combined, <<"l", "e", "s", "s", " ">>)
           \/ contains(combined, <<"s", "t", "y", "l", "e", "d", "-", "c", "o", "m", "p", "o", "n", "e", "n", "t">>)
           \/ contains(combined, <<"b", "o", "o", "t", "s", "t", "r", "a", "p">>)
           \/ contains(combined, <<"m", "a", "t", "e", "r", "i", "a", "l", " ", "u", "i">>)
           \/ contains(combined, <<"c", "h", "a", "k", "r", "a", " ", "u", "i">>)
           \/ contains(combined, <<"f", "l", "e", "x", "b", "o", "x">>)
           \/ contains(combined, <<"g", "r", "i", "d", " ", "l", "a", "y", "o", "u", "t">>)
           \/ contains(combined, <<"a", "n", "i", "m", "a", "t", "i", "o", "n">>)
           \/ contains(combined, <<"r", "e", "s", "p", "o", "n", "s", "i", "v", "e", " ", "d", "e", "s", "i", "g", "n">>)
           \/ contains(url_lower, <<"c", "s", "s", "w", "i", "z", "a", "r", "d", "r", "y">>)
           \/ contains(url_lower, <<"c", "s", "s", "-", "t", "r", "i", "c", "k", "s">>)
      [] cat = "DevKubernetes" ->    \* bookmarks.rs:938-952
           \/ contains(url_lower, <<"k", "u", "b", "e", "r", "n", "e", "t", "e", "s", ".", "i", "o">>)
           \/ contains(combined, <<"k", "u", "b", "e", "r", "n", "e", "t", "e", "s">>)
           \/ contains(combined, <<"k", "8", "s">>)
           \/ contains(combined, <<"k", "u", "b", "e", "c", "t", "l">>)
           \/ contains(combined, <<"h", "e", "l", "m", " ">>)
           \/ contains(combined, <<"h", "e", "l", "m", " ", "c", "h", "a", "r", "t">>)
           \/ contains(combined, <<"m", "i", "n", "i", "k", "u", "b", "e">>)
           \/ contains(combined, <<"k", "i", "n", "d", " ", "c", "l", "u", "s", "t", "e", "r">>)
           \/ contains(combined, <<"p", "o", "d", " ">>)
           \/ (contains(combined, <<"d", "e", "p", "l", "o", "y", "m", "e", "n", "t">>) /\ contains(combined, <<"c", "o", "n", "t", "a", "i", "n", "e", "r">>))
           \/ contains(combined, <<"s", "e", "r", "v", "i", "c", "e", " ", "m", "e", "s", "h">>)
           \/ contains(combined, <<"i", "s", "t", "i", "o">>)
           \/ contains(combined, <<"i", "n", "g", "r", "e", "s", "s">>)
      [] cat = "DevDocker" ->    \* bookmarks.rs:956-964
           \/ contains(url_lower, <<"d", "o", "c", "k", "e", "r", ".", "c", "o", "m">>)
           \/ contains(url_lower, <<"h", "u", "b", ".", "d", "o", "c", "k", "e", "r", ".", "c", "o", "m">>)
           \/ contains(combined, <<"d", "o", "c", "k", "e", "r">>)
           \/ contains(combined, <<"d", "o", "c", "k", "e", "r", "f", "i", "l", "e">>)
           \/ (contains(combined, <<"c", "o", "n", "t", "a", "i", "n", "e", "r">>) /\ ~contains(combined, <<"k", "u", "b", "e", "r", "n", "e", "t", "e", "s">>))
           \/ contains(combined, <<"d", "o", "c", "k", "e", "r", "-", "c", "o", "m", "p", "o", "s", "e">>)
           \/ contains(combined, <<"p", "o", "d", "m", "a", "n">>)
      [] cat = "DevPostgres" ->    \* bookmarks.rs:968-974
           \/ contains(url_lower, <<"p", "o", "s", "t", "g", "r", "e", "s", "q", "l", ".", "o", "r", "g">>)
           \/ contains(combined, <<"p", "o", "s", "t", "g", "r", "e", "s", "q", "l">>)
           \/ contains(combined, <<"p", "o", "s", "t", "g", "r", "e", "s">>)
           \/ contains(combined, <<"p", "s", "q", "l">>)
           \/ contains(combined, <<"p", "g", "_">>)
      [] cat = "DevDatabase" ->    \* bookmarks.rs:978-993
           \/ contains(combined, <<"m", "y", "s", "q", "l">>)
           \/ contains(combined, <<"m", "o", "n", "g", "o", "d", "b">>)
           \/ contains(combined, <<"r", "e", "d", "i", "s">>)
           \/ contains(combined, <<"e", "l", "a", "s", "t", "i", "c", "s", "e", "a", "r", "c", "h">>)
           \/ contains(combined, <<"s", "q", "l", "i", "t", "e">>)
           \/ contains(combined, <<"d", "y", "n", "a", "m", "o", "d", "b">>)
           \/ contains(combined, <<"c", "a", "s", "s", "a", "n", "d", "r", "a">>)
           \/ contains(combined, <<"s", "q", "l", " ">>)
           \/ contains(combined, <<"n", "o", "s", "q", "l">>)
           \/ contains(combined, <<"d", "a", "t", "a", "b", "a", "s", "e">>)
           \/ contains(combined, <<"q", "u", "e", "r", "y", " ", "o", "p", "t", "i", "m", "i", "z", "a", "t", "i", "o", "n">>)
           \/ contains(combined, <<"o", "r", "m", " ">>)
           \/ contains(combined, <<"p", "r", "i", "s", "m", "a">>)
           \/ contains(combined, <<"d", "r", "i", "z", "z", "l", "e">>)
      [] cat = "DevAWS" ->    \* bookmarks.rs:997-1011
           \/ contains(url_lower, <<"a", "w", "s", ".", "a", "m", "a", "z", "o", "n", ".", "c", "o", "m">>)
           \/ contains(combined, <<"a", "w", "s", " ">>)
           \/ contains(combined, <<"a", "m", "a", "z", "o", "n", " ", "w", "e", "b", " ", "s", "e", "r", "v", "i", "c", "e", "s">>)
           \/ (contains(combined, <<"l", "a", "m", "b", "d", "a">>) /\ contains(combined, <<"a", "w", "s">>))
           \/ contains(combined, <<"e", "c", "2">>)
           \/ contains(combined, <<"s", "3", " ", "b", "u", "c", "k", "e", "t">>)
           \/ contains(combined, <<"c", "l", "o", "u", "d", "f", "o", "r", "m", "a", "t", "i", "o", "n">>)
           \/ contains(combined, <<"c", "l", "o", "u", "d", "w", "a", "t", "c", "h">>)
           \/ contains(combined, <<"d", "y", "n", "a", "m", "o", "d", "b">>)
           \/ contains(combined, <<"s", "q", "s", " ">>)
           \/ contains(combined, <<"s", "n", "s", " ">>)
           \/ (contains(combined, <<"i", "a", "m", " ">>) /\ contains(combined, <<"a", "w", "s">>))
           \/ (contains(combined, <<"c", "d", "k">>) /\ contains(combined, <<"a", "w", "s">>))
      [] cat = "DevServerless" ->    \* bookmarks.rs:1015-1025
           \/ contains(combined, <<"s", "e", "r", "v", "e", "r", "l", "e", "s", "s">>)
           \/ contains(combined, <<"l", "a", "m", "b", "d", "a", " ", "f", "u", "n", "c", "t", "i", "o", "n">>)
           \/ contains(combined, <<"c", "l", "o", "u", "d", " ", "f", "u", "n", "c", "t", "i", "o", "n">>)
           \/ contains(combined, <<"a", "z", "u", "r", "e", " ", "f", "u", "n", "c", "t", "i", "o", "n">>)
           \/ (contains(combined, <<"v", "e", "r", "c", "e", "l">>) /\ contains(combined, <<"f", "u", "n", "c", "t", "i", "o", "n">>))
           \/ contains(combined, <<"n", "e", "t", "l", "i", "f", "y", " ", "f", "u", "n", "c", "t", "i", "o", "n">>)
           \/ contains(combined, <<"e", "d", "g", "e", " ", "f", "u", "n", "c", "t", "i", "o", "n">>)
           \/ contains(combined, <<"f", "a", "a", "s">>)
           \/ contains(url_lower, <<"s", "e", "r", "v", "e", "r", "l", "e", "s", "s", ".", "c", "o", "m">>)
      [] cat = "DevGit" ->    \* bookmarks.rs:1029-1041
           \/ contains(url_lower, <<"g", "i", "t", "h", "u", "b", ".", "c", "o", "m">>)
           \/ contains(url_lower, <<"g", "i", "t", "l", "a", "b", ".", "c", "o", "m">>)
           \/ contains(url_lower, <<"b", "i", "t", "b", "u", "c", "k", "e", "t", ".", "o", "r", "g">>)
           \/ contains(combined, <<"g", "i", "t", " ">>)
           \/ contains(combined, <<"g", "i", "t", "f", "l", "o", "w">>)
           \/ contains(combined, <<"p", "u", "l", "l", " ", "r", "e", "q", "u", "e", "s", "t">>)
           \/ contains(combined, <<"m", "e", "r", "g", "e", " ", "c", "o", "n", "f", "l", "i", "c", "t">>)
           \/ (contains(combined, <<"b", "r", "a", "n", "c", "h">>) /\ contains(combined, <<"g", "i", "t">>))
           \/ (contains(combined, <<"c", "o", "m", "m", "i", "t">>) /\ contains(combined, <<"g", "i", "t">>))
           \/ contains(combined, <<"r", "e", "b", "a", "s", "e">>)
           \/ contains(combined, <<"c", "h", "e", "r", "r", "y", "-", "p", "i", "c", "k">>)
      [] cat = "DevDevOps" ->    \* bookmarks.rs:1045-1065
           \/ contains(combined, <<"d", "e", "v", "o", "p", "s">>)
           \/ contains(combined, <<"c", "i", "/", "c", "d">>)
           \/ contains(combined, <<"c", "i", "c", "d">>)
           \/ contains(combined, <<"j", "e", "n", "k", "i", "n", "s">>)
           \/ contains(combined, <<"g", "i", "t", "h", "u", "b", " ", "a", "c", "t", "i", "o", "n", "s">>)
           \/ contains(combined, <<"g", "i", "t", "l", "a", "b", " ", "c", "i">>)
           \/ contains(combined, <<"c", "i", "r", "c", "l", "e", "c", "i">>)
           \/ contains(combined, <<"t", "r", "a", "v", "i", "s", " ", "c", "i">>)
           \/ contains(combined, <<"a", "r", "g", "o">>)
           \/ contains(combined, <<"t", "e", "r", "r", "a", "f", "o", "r", "m">>)
           \/ contains(combined, <<"a", "n", "s", "i", "b", "l", "e">>)
           \/ contains(combined, <<"p", "u", "p", "p", "e", "t">>)
           \/ contains(combined, <<"c", "h", "e", "f", " ">>)
           \/ contains(combined, <<"i", "n", "f", "r", "a", "s", "t", "r", "u", "c", "t", "u", "r", "e", " ", "a", "s", " ", "c", "o", "d", "e">>)
           \/ contains(combined, <<"m", "o", "n", "i", "t", "o", "r", "i", "n", "g">>)
           \/ contains(combined, <<"p", "r", "o", "m", "e", "t", "h", "e", "u", "s">>)
           \/ contains(combined, <<"g", "r", "a", "f", "a", "n", "a">>)
           \/ contains(combined, <<"d", "a", "t", "a", "d", "o", "g">>)
           \/ contains(combined, <<"s", "o", "n", "a", "r", "q", "u", "b", "e">>)
      [] cat = "DevMobile" ->    \* bookmarks.rs:1069-1082
           \/ contains(combined, <<"i", "o", "s", " ">>)
           \/ contains(combined, <<"a", "n", "d", "r", "o", "i", "d", " ">>)
           \/ contains(combined, <<"s", "w", "i", "f", "t">>)
           \/ contains(combined, <<"s", "w", "i", "f", "t", "u", "i">>)
           \/ contains(combined, <<"x", "c", "o", "d", "e">>)
           \/ contains(combined, <<"f", "l", "u", "t", "t", "e", "r">>)
           \/ contains(combined, <<"d", "a", "r", "t", " ">>)
           \/ contains(combined, <<"m", "o", "b", "i", "l", "e", " ", "a", "p", "p">>)
           \/ contains(combined, <<"a", "p", "p", " ", "s", "t", "o", "r", "e">>)
           \/ contains(combined, <<"p", "l", "a", "y", " ", "s", "t", "o", "r", "e">>)
           \/ contains(url_lower, <<"d", "e", "v", "e", "l", "o", "p", "e", "r", ".", "a", "p", "p", "l", "e", ".", "c", "o", "m">>)
           \/ contains(url_lower, <<"d", "e", "v", "e", "l", "o", "p", "e", "r", ".", "a", "n", "d", "r", "o", "i", "d", ".", "c", "o", "m">>)
      [] cat = "DevWebTech" ->    \* bookmarks.rs:1086-1112
           \/ contains(combined, <<"h", "t", "m", "l">>)
           \/ contains(combined, <<"d", "o", "m", " ">>)
           \/ contains(combined, <<"w", "e", "b", " ", "c", "o", "m", "p", "o", "n", "e", "n", "t">>)
           \/ contains(combined, <<"p", "w", "a">>)
           \/ contains(combined, <<"p", "r", "o", "g", "r", "e", "s", "s", "i", "v", "e", " ", "w", "e", "b">>)
           \/ contains(combined, <<"s", "e", "r", "v", "i", "c", "e", " ", "w", "o", "r", "k", "e", "r">>)
           \/ contains(combined, <<"w", "e", "b", "s", "o", "c", "k", "e", "t">>)
           \/ contains(combined, <<"h", "t", "t", "p">>)
           \/ contains(combined, <<"c", "o", "r", "s">>)
           \/ contains(combined, <<"o", "a", "u", "t", "h">>)
           \/ contains(combined, <<"j", "w", "t", " ">>)
           \/ contains(combined, <<"r", "e", "s", "t", " ", "a", "p", "i">>)
           \/ contains(combined, <<"g", "r", "a", "p", "h", "q", "l">>)
           \/ contains(combined, <<"g", "r", "p", "c">>)
           \/ contains(combined, <<"w", "e", "b", "p", "a", "c", "k">>)
           \/ contains(combined, <<"v", "i", "t", "e">>)
           \/ contains(combined, <<"e", "s", "b", "u", "i", "l", "d">>)
           \/ contains(combined, <<"r", "o", "l", "l", "u", "p">>)
           \/ contains(combined, <<"b", "a", "b", "e", "l">>)
           \/ contains(url_lower, <<"v", "u", "e", "j", "s", ".", "o", "r", "g">>)
           \/ contains(url_lower, <<"a", "n", "g", "u", "l", "a", "r", ".", "i", "o">>)
           \/ contains(url_lower, <<"s", "v", "e", "l", "t", "e", ".", "d", "e", "v">>)
           \/ contains(combined, <<"v", "u", "e", " ">>)
           \/ contains(combined, <<"a", "n", "g", "u", "l", "a", "r">>)
           \/ contains(combined, <<"s", "v", "e", "l", "t", "e">>)
      [] cat = "DevAPI" ->    \* bookmarks.rs:1116-1125
           \/ contains(combined, <<"a", "p", "i", " ">>)
           \/ contains(combined, <<"r", "e", "s", "t", " ">>)
           \/ contains(combined, <<"o", "p", "e", "n", "a", "p", "i">>)
           \/ contains(combined, <<"s", "w", "a", "g", "g", "e", "r">>)
           \/ contains(combined, <<"p", "o", "s", "t", "m", "a", "n">>)
           \/ contains(combined, <<"i", "n", "s", "o", "m", "n", "i", "a">>)
           \/ contains(combined, <<"e", "n", "d", "p", "o", "i", "n", "t">>)
           \/ contains(combined, <<"w", "e", "b", "h", "o", "o", "k">>)
      [] cat = "DevGeneral" ->    \* bookmarks.rs:1129-1151
           \/ contains(url_lower, <<"s", "t", "a", "c", "k", "o", "v", "e", "r", "f", "l", "o", "w", ".", "c", "o", "m">>)
           \/ contains(url_lower, <<"s", "t", "a", "c", "k", "e", "x", "c", "h", "a", "n", "g", "e", ".", "c", "o", "m">>)
           \/ contains(url_lower, <<"d", "e", "v", "e", "l", "o", "p", "e", "r", ".">>)
           \/ contains(url_lower, <<"d", "o", "c", "s", ".">>)
           \/ contains(url_lower, <<"v", "e", "r", "c", "e", "l", ".", "c", "o", "m">>)
           \/ contains(url_lower, <<"n", "e", "t", "l", "i", "f", "y", ".", "c", "o", "m">>)
           \/ contains(url_lower, <<"h", "e", "r", "o", "k", "u", ".", "c", "o", "m">>)
           \/ contains(url_lower, <<"c", "l", "o", "u", "d", ".", "g", "o", "o", "g", "l", "e", ".", "c", "o", "m">>)
           \/ contains(url_lower, <<"a", "z", "u", "r", "e", ".", "m", "i", "c", "r", "o", "s", "o", "f", "t", ".", "c", "o", "m">>)
           \/ contains(url_lower, <<"c", "o", "d", "e", "p", "e", "n", ".", "i", "o">>)
           \/ contains(url_lower, <<"c", "o", "d", "e", "s", "a", "n", "d", "b", "o", "x", ".", "i", "o">>)
           \/ contains(url_lower, <<"r", "e", "p", "l", "i", "t", ".", "c", "o", "m">>)
           \/ contains(url_lower, <<"j", "s", "f", "i", "d", "d", "l", "e", ".", "n", "e", "t">>)
           \/ (contains(url_lower, <<"m", "e", "d", "i", "u", "m", ".", "c", "o", "m">>) /\ contains(combined, <<"p", "r", "o", "g", "r", "a", "m", "m", "i", "n", "g">>))
           \/ contains(url_lower, <<"d", "e", "v", ".", "t", "o">>)
           \/ contains(url_lower, <<"h", "a", "s", "h", "n", "o", "d", "e", ".", "c", "o", "m">>)
           \/ contains(combined, <<"d", "o", "c", "u", "m", "e", "n", "t", "a", "t", "i", "o", "n">>)
           \/ contains(combined, <<"t", "u", "t", "o", "r", "i", "a", "l">>)
           \/ contains(combined, <<"p", "r", "o", "g", "r", "a", "m", "m", "i", "n", "g">>)
           \/ contains(combined, <<"c", "o", "d", "i", "n", "g">>)
           \/ contains(combined, <<"d", "e", "v", "e", "l", "o", "p", "e", "r">>)
      [] cat = "Music" ->    \* bookmarks.rs:1159-1168
           \/ contains(url_lower, <<"s", "p", "o", "t", "i", "f", "y", ".", "c", "o", "m">>)
           \/ contains(url_lower, <<"s", "o", "u", "n", "d", "c", "l", "o", "u", "d", ".", "c", "o", "m">>)
           \/ contains(url_lower, <<"m", "u", "s", "i", "c", ".", "a", "p", "p", "l", "e", ".", "c", "o", "m">>)
           \/ contains(url_lower, <<"b", "a", "n", "d", "c", "a", "m", "p", ".", "c", "o", "m">>)
           \/ contains(url_lower, <<"l", "a", "s", "t", ".", "f", "m">>)
           \/ contains(url_lower, <<"p", "a", "n", "d", "o", "r", "a", ".", "c", "o", "m">>)
           \/ contains(url_lower, <<"d", "e", "e", "z", "e", "r", ".", "c", "o", "m">>)
           \/ contains(url_lower, <<"t", "i", "d", "a", "l", ".", "c", "o", "m">>)
      [] cat = "Gaming" ->    \* bookmarks.rs:1172-1183
           \/ contains(url_lower, <<"s", "t", "e", "a", "m">>)
           \/ contains(url_lower, <<"e", "p", "i", "c", "g", "a", "m", "e", "s", ".", "c", "o", "m">>)
           \/ contains(url_lower, <<"g", "o", "g", ".", "c", "o", "m">>)
           \/ contains(url_lower, <<"p", "l", "a", "y", "s", "t", "a", "t", "i", "o", "n", ".", "c", "o", "m">>)
           \/ contains(url_lower, <<"x", "b", "o", "x", ".", "c", "o", "m">>)
           \/ contains(url_lower, <<"n", "i", "n", "t", "e", "n", "d", "o", ".", "c", "o", "m">>)
           \/ contains(url_lower, <<"i", "g", "n", ".", "c", "o", "m">>)
           \/ contains(url_lower, <<"g", "a", "m", "e", "s", "p", "o", "t", ".", "c", "o", "m">>)
           \/ contains(url_lower, <<"k", "o", "t", "a", "k", "u", ".", "c", "o", "m">>)
           \/ contains(url_lower, <<"p", "o", "l", "y", "g", "o", "n", ".", "c", "o", "m">>)
      [] cat = "Entertainment" ->    \* bookmarks.rs:1187-1197
           \/ contains(url_lower, <<"n", "e", "t", "f", "l", "i", "x", ".", "c", "o", "m">>)
           \/ contains(url_lower, <<"h", "u", "l", "u", ".", "c", "o", "m">>)
           \/ contains(url_lower, <<"d", "i", "s", "n", "e", "y", "p", "l", "u", "s", ".", "c", "o", "m">>)
           \/ contains(url_lower, <<"h", "b", "o", "m", "a", "x", ".", "c", "o", "m">>)
           \/ contains(url_lower, <<"p", "r", "i", "m", "e", "v", "i", "d", "e", "o", ".", "c", "o", "m">>)
           \/ contains(url_lower, <<"c", "r", "u", "n", "c", "h", "y", "r", "o", "l", "l", ".", "c", "o", "m">>)
           \/ contains(url_lower, <<"i", "m", "d", "b", ".", "c", "o", "m">>)
           \/ contains(url_lower, <<"r", "o", "t", "t", "e", "n", "t", "o", "m", "a", "t", "o", "e", "s", ".", "c", "o", "m">>)
           \/ contains(url_lower, <<"l", "e", "t", "t", "e", "r", "b", "o", "x", "d", ".", "c", "o", "m">>)
      [] cat = "Reference" ->    \* bookmarks.rs:1201-1212
           \/ contains(url_lower, <<"w", "i", "k", "i", "p", "e", "d", "i", "a", ".", "o", "r", "g">>)
           \/ contains(url_lower, <<"w", "i", "k", "i", "m", "e", "d", "i", "a", ".", "o", "r", "g">>)
           \/ contains(url_lower, <<"w", "i", "k", "t", "i", "o", "n", "a", "r", "y", ".", "o", "r", "g">>)
           \/ contains(url_lower, <<"b", "r", "i", "t", "a", "n", "n", "i", "c", "a", ".", "c", "o", "m">>)
           \/ contains(url_lower, <<"m", "e", "r", "r", "i", "a", "m", "-", "w", "e", "b", "s", "t", "e", "r", ".", "c", "o", "m">>)
           \/ contains(url_lower, <<"d", "i", "c", "t", "i", "o", "n", "a", "r", "y", ".", "c", "o", "m">>)
           \/ contains(url_lower, <<"t", "h", "e", "s", "a", "u", "r", "u", "s", ".", "c", "o", "m">>)
           \/ contains(url_lower, <<"t", "r", "a", "n", "s", "l", "a", "t", "e", ".", "g", "o", "o", "g", "l", "e">>)
           \/ contains(url_lower, <<"d", "e", "e", "p", "l", ".", "c", "o", "m">>)
           \/ contains(url_lower, <<"w", "o", "l", "f", "r", "a", "m", "a", "l", "p", "h", "a", ".", "c", "o", "m">>)
      [] cat = "Tools" ->    \* bookmarks.rs:1216-1237
           \/ contains(url_lower, <<"n", "o", "t", "i", "o", "n", ".", "s", "o">>)
           \/ contains(url_lower, <<"t", "r", "e", "l", "l", "o", ".", "c", "o", "m">>)
           \/ contains(url_lower, <<"a", "s", "a", "n", "a", ".", "c", "o", "m">>)
           \/ contains(url_lower, <<"m", "o", "n", "d", "a", "y", ".", "c", "o", "m">>)
           \/ contains(url_lower, <<"f", "i", "g", "m", "a", ".", "c", "o", "m">>)
           \/ contains(url_lower, <<"c", "a", "n", "v", "a", ".", "c", "o", "m">>)
           \/ contains(url_lower, <<"d", "r", "i", "v", "e", ".", "g", "o", "o", "g", "l", "e", ".", "c", "o", "m">>)
           \/ contains(url_lower, <<"d", "r", "o", "p", "b", "o", "x", ".", "c", "o", "m">>)
           \/ contains(url_lower, <<"b", "o", "x", ".", "c", "o", "m">>)
           \/ contains(url_lower, <<"1", "p", "a", "s", "s", "w", "o", "r", "d", ".", "c", "o", "m">>)
           \/ contains(url_lower, <<"l", "a", "s", "t", "p", "a", "s", "s", ".", "c", "o", "m">>)
           \/ contains(url_lower, <<"b", "i", "t", "w", "a", "r", "d", "e", "n", ".", "c", "o", "m">>)
           \/ contains(url_lower, <<"g", "r", "a", "m", "m", "a", "r", "l", "y", ".", "c", "o", "m">>)
           \/ contains(url_lower, <<"c", "a", "l", "e", "n", "d", "l", "y", ".", "c", "o", "m">>)
           \/ contains(url_lower, <<"z", "o", "o", "m", ".", "u", "s">>)
           \/ contains(url_lower, <<"m", "e", "e", "t", ".", "g", "o", "o", "g", "l", "e", ".", "c", "o", "m">>)
           \/ contains(url_lower, <<"t", "e", "a", "m", "s", ".", "m", "i", "c", "r", "o", "s", "o", "f", "t", ".", "c", "o", "m">>)
           \/ contains(combined, <<"c", "o", "n", "v", "e", "r", "t", "e", "r">>)
           \/ contains(combined, <<"g", "e", "n", "e", "r", "a", "t", "o", "r">>)
           \/ contains(combined, <<"c", "a", "l", "c", "u", "l", "a", "t", "o", "r">>)
      [] cat = "Health" ->    \* bookmarks.rs:1241-1255
           \/ contains(url_lower, <<"w", "e", "b", "m", "d", ".", "c", "o", "m">>)
           \/ contains(url_lower, <<"m", "a", "y", "o", "c", "l", "i", "n", "i", "c", ".", "o", "r", "g">>)
           \/ contains(url_lower, <<"h", "e", "a", "l", "t", "h", "l", "i", "n", "e", ".", "c", "o", "m">>)
           \/ contains(url_lower, <<"n", "i", "h", ".", "g", "o", "v">>)
           \/ contains(url_lower, <<"c", "d", "c", ".", "g", "o", "v">>)
           \/ contains(url_lower, <<"w", "h", "o", ".", "i", "n", "t">>)
           \/ contains(url_lower, <<"m", "y", "f", "i", "t", "n", "e", "s", "s", "p", "a", "l", ".", "c", "o", "m">>)
           \/ contains(url_lower, <<"s", "t", "r", "a", "v", "a", ".", "c", "o", "m">>)
           \/ contains(url_lower, <<"f", "i", "t", "b", "i", "t", ".", "c", "o", "m">>)
           \/ contains(combined, <<"h", "e", "a", "l", "t", "h">>)
           \/ contains(combined, <<"f", "i", "t", "n", "e", "s", "s">>)
           \/ contains(combined, <<"w", "o", "r", "k", "o", "u", "t">>)
           \/ contains(combined, <<"d", "i", "e", "t">>)
      [] cat = "Travel" ->    \* bookmarks.rs:1259-1275
           \/ contains(url_lower, <<"b", "o", "o", "k", "i", "n", "g", ".", "c", "o", "m">>)
           \/ contains(url_lower, <<"a", "i", "r", "b", "n", "b", ".", "c", "o", "m">>)
           \/ contains(url_lower, <<"e", "x", "p", "e", "d", "i", "a", ".", "c", "o", "m">>)
           \/ contains(url_lower, <<"k", "a", "y", "a", "k", ".", "c", "o", "m">>)
           \/ contains(url_lower, <<"t", "r", "i", "p", "a", "d", "v", "i", "s", "o", "r", ".", "c", "o", "m">>)
           \/ contains(url_lower, <<"s", "k", "y", "s", "c", "a", "n", "n", "e", "r", ".", "c", "o", "m">>)
           \/ contains(url_lower, <<"g", "o", "o", "g", "l", "e", ".", "c", "o", "m", "/", "f", "l", "i", "g", "h", "t", "s">>)
           \/ contains(url_lower, <<"g", "o", "o", "g", "l", "e", ".", "c", "o", "m", "/", "m", "a", "p", "s">>)
           \/ contains(url_lower, <<"m", "a", "p", "s", ".", "g", "o", "o", "g", "l", "e">>)
           \/ contains(url_lower, <<"h", "o", "t", "e", "l", "s", ".", "c", "o", "m">>)
           \/ contains(url_lower, <<"v", "r", "b", "o", ".", "c", "o", "m">>)
           \/ contains(combined, <<"t", "r", "a", "v", "e", "l">>)
           \/ contains(combined, <<"f", "l", "i", "g", "h", "t">>)
           \/ contains(combined, <<"h", "o", "t", "e", "l">>)
           \/ contains(combined, <<"v", "a", "c", "a", "t", "i", "o", "n">>)
      [] cat = "Food" ->    \* bookmarks.rs:1279-1294
           \/ contains(url_lower, <<"a", "l", "l", "r", "e", "c", "i", "p", "e", "s", ".", "c", "o", "m">>)
           \/ contains(url_lower, <<"f", "o", "o", "d", "n", "e", "t", "w", "o", "r", "k", ".", "c", "o", "m">>)
           \/ contains(url_lower, <<"e", "p", "i", "c", "u", "r", "i", "o", "u", "s", ".", "c", "o", "m">>)
           \/ contains(url_lower, <<"b", "o", "n", "a", "p", "p", "e", "t", "i", "t", ".", "c", "o", "m">>)
           \/ contains(url_lower, <<"s", "e", "r", "i", "o", "u", "s", "e", "a", "t", "s", ".", "c", "o", "m">>)
           \/ contains(url_lower, <<"t", "a", "s", "t", "y", ".", "c", "o">>)
           \/ contains(url_lower, <<"d", "o", "o", "r", "d", "a", "s", "h", ".", "c", "o", "m">>)
           \/ contains(url_lower, <<"u", "b", "e", "r", "e", "a", "t", "s", ".", "c", "o", "m">>)
           \/ contains(url_lower, <<"g", "r", "u", "b", "h", "u", "b", ".", "c", "o", "m">>)
           \/ contains(url_lower, <<"p", "o", "s", "t", "m", "a", "t", "e", "s", ".", "c", "o", "m">>)
           \/ contains(url_lower, <<"y", "e", "l", "p", ".", "c", "o", "m">>)
           \/ contains(combined, <<"r", "e", "c", "i", "p", "e">>)
           \/ contains(combined, <<"c", "o", "o", "k", "i", "n", "g">>)
           \/ contains(combined, <<"r", "e", "s", "t", "a", "u", "r", "a", "n", "t">>)
      [] cat = "Sports" ->    \* bookmarks.rs:1298-1311
           \/ contains(url_lower, <<"e", "s", "p", "n", ".", "c", "o", "m">>)
           \/ contains(url_lower, <<"s", "p", "o", "r", "t", "s", ".">>)
           \/ contains(url_lower, <<"n", "f", "l", ".", "c", "o", "m">>)
           \/ contains(url_lower, <<"n", "b", "a", ".", "c", "o", "m">>)
           \/ contains(url_lower, <<"m", "l", "b", ".", "c", "o", "m">>)
           \/ contains(url_lower, <<"n", "h", "l", ".", "c", "o", "m">>)
           \/ contains(url_lower, <<"f", "i", "f", "a", ".", "c", "o", "m">>)
           \/ contains(url_lower, <<"u", "e", "f", "a", ".", "c", "o", "m">>)
           \/ contains(url_lower, <<"o", "l", "y", "m", "p", "i", "c", "s", ".", "c", "o", "m">>)
           \/ contains(combined, <<"s", "c", "o", "r", "e">>)
           \/ contains(combined, <<"l", "e", "a", "g", "u", "e">>)
           \/ contains(combined, <<"t", "e", "a", "m">>)

\* bookmarks.rs:215-1314  the cascade of if ... return, in source order
cascade(url_lower, combined) ==
    IF rule_holds("AIRAG", url_lower, combined) THEN "AIRAG"
    ELSE IF rule_holds("AIContext", url_lower, combined) THEN "AIContext"
    ELSE IF rule_holds("AIAgents", url_lower, combined) THEN "AIAgents"
    ELSE IF rule_holds("AIPromptEngineering", url_lower, combined) THEN "AIPromptEngineering"
    ELSE IF rule_holds("AIVectorDB", url_lower, combined) THEN "AIVectorDB"
    ELSE IF rule_holds("AIEmbeddings", url_lower, combined) THEN "AIEmbeddings"
    ELSE IF rule_holds("AIFineTuning", url_lower, combined) THEN "AIFineTuning"
    ELSE IF rule_holds("AILLMs", url_lower, combined) THEN "AILLMs"
    ELSE IF rule_holds("AIMLOps", url_lower, combined) THEN "AIMLOps"
    ELSE IF rule_holds("AIComputerVision", url_lower, combined) THEN "AIComputerVision"
    ELSE IF rule_holds("AINLP", url_lower, combined) THEN "AINLP"
    ELSE IF rule_holds("AIResearch", url_lower, combined) THEN "AIResearch"
    ELSE IF rule_holds("AIGeneral", url_lower, combined) THEN "AIGeneral"
    ELSE IF rule_holds("FinanceCrypto", url_lower, combined) THEN "FinanceCrypto"
    ELSE IF rule_holds("FinanceTrading", url_lower, combined) THEN "FinanceTrading"
    ELSE IF rule_holds("FinancePersonal", url_lower, combined) THEN "FinancePersonal"
    ELSE IF rule_holds("FinanceGeneral", url_lower, combined) THEN "FinanceGeneral"
    ELSE IF rule_holds("PersonalDevelopment", url_lower, combined) THEN "PersonalDevelopment"
    ELSE IF rule_holds("Shopping", url_lower, combined) THEN "Shopping"
    ELSE IF rule_holds("Video", url_lower, combined) THEN "Video"
    ELSE IF rule_holds("Social", url_lower, combined) THEN "Social"
    ELSE IF rule_holds("News", url_lower, combined) THEN "News"
    ELSE IF rule_holds("Education", url_lower, combined) THEN "Education"
    ELSE IF rule_holds("DevReact", url_lower, combined) THEN "DevReact"
    ELSE IF rule_holds("DevPython", url_lower, combined) THEN "DevPython"
    ELSE IF rule_holds("DevRust", url_lower, combined) THEN "DevRust"
    ELSE IF rule_holds("DevJava", url_lower, combined) THEN "DevJava"
    ELSE IF rule_holds("DevTypeScript", url_lower, combined) THEN "DevTypeScript"
    ELSE IF rule_holds("DevJavaScript", url_lower, combined) THEN "DevJavaScript"
    ELSE IF rule_holds("DevCSS", url_lower, combined) THEN "DevCSS"
    ELSE IF rule_holds("DevKubernetes", url_lower, combined) THEN "DevKubernetes"
    ELSE IF rule_holds("DevDocker", url_lower, combined) THEN "DevDocker"
    ELSE IF rule_holds("DevPostgres", url_lower, combined) THEN "DevPostgres"
    ELSE IF rule_holds("DevDatabase", url_lower, combined) THEN "DevDatabase"
    ELSE IF rule_holds("DevAWS", url_lower, combined) THEN "DevAWS"
    ELSE IF rule_holds("DevServerless", url_lower, combined) THEN "DevServerless"
    ELSE IF rule_holds("DevGit", url_lower, combined) THEN "DevGit"
    ELSE IF rule_holds("DevDevOps", url_lower, combined) THEN "DevDevOps"
    ELSE IF rule_holds("DevMobile", url_lower, combined) THEN "DevMobile"
    ELSE IF rule_holds("DevWebTech", url_lower, combined) THEN "DevWebTech"
    ELSE IF rule_holds("DevAPI", url_lower, combined) THEN "DevAPI"
    ELSE IF rule_holds("DevGeneral", url_lower, combined) THEN "DevGeneral"
    ELSE IF rule_holds("Music", url_lower, combined) THEN "Music"
    ELSE IF rule_holds("Gaming", url_lower, combined) THEN "Gaming"
    ELSE IF rule_holds("Entertainment", url_lower, combined) THEN "Entertainment"
    ELSE IF rule_holds("Reference", url_lower, combined) THEN "Reference"
    ELSE IF rule_holds("Tools", url_lower, combined) THEN "Tools"
    ELSE IF rule_holds("Health", url_lower, combined) THEN "Health"
    ELSE IF rule_holds("Travel", url_lower, combined) THEN "Travel"
    ELSE IF rule_holds("Food", url_lower, combined) THEN "Food"
    ELSE IF rule_holds("Sports", url_lower, combined) THEN "Sports"
    ELSE "Other"

\* the cascade run on the url and the title as they are spelled
from_url_and_title_as_typed(url, title) ==
    cascade(url, url \o <<" ">> \o title)

\* bookmarks.rs:205-1315 BookmarkCategory::from_url_and_title
from_url_and_title(url, title) ==
    LET url_lower == to_lowercase(url)
        title_lower == to_lowercase(title)
        combined == url_lower \o <<" ">> \o title_lower
    IN  cascade(url_lower, combined)

\* the categories the if statements return, in source order
RuleOrder ==
    <<"AIRAG", "AIContext", "AIAgents", "AIPromptEngineering", "AIVectorDB",
      "AIEmbeddings", "AIFineTuning", "AILLMs", "AIMLOps", "AIComputerVision",
      "AINLP", "AIResearch", "AIGeneral", "FinanceCrypto", "FinanceTrading",
      "FinancePersonal", "FinanceGeneral", "PersonalDevelopment", "Shopping", "Video",
      "Social", "News", "Education", "DevReact", "DevPython",
      "DevRust", "DevJava", "DevTypeScript", "DevJavaScript", "DevCSS",
      "DevKubernetes", "DevDocker", "DevPostgres", "DevDatabase", "DevAWS",
      "DevServerless", "DevGit", "DevDevOps", "DevMobile", "DevWebTech",
      "DevAPI", "DevGeneral", "Music", "Gaming", "Entertainment",
      "Reference", "Tools", "Health", "Travel", "Food",
      "Sports">>


\* bookmarks.rs:210-1156  the place of the block of a category in the cascade:
\* AI/ML, Finance, Personal Development, the general categories checked
\* before Development, Development, the remaining general categories
block_rank(cat) ==
    CASE cat \in {"AIRAG", "AIContext", "AIAgents", "AIPromptEngineering", "AIVectorDB",
                  "AIEmbeddings", "AIFineTuning", "AILLMs", "AIMLOps", "AIComputerVision",
                  "AINLP", "AIResearch", "AIGeneral"} -> 1
      [] cat \in {"FinanceCrypto", "FinanceTrading", "FinancePersonal", "FinanceGeneral"} -> 2
      [] cat = "PersonalDevelopment" -> 3
      [] cat \in {"Shopping", "Video", "Social", "News", "Education"} -> 4
      [] cat \in {"DevReact", "DevPython", "DevRust", "DevJava", "DevTypeScript", "DevJavaScript",
                  "DevCSS", "DevKubernetes", "DevDocker", "DevPostgres", "DevDatabase", "DevAWS",
                  "DevServerless", "DevGit", "DevDevOps", "DevMobile", "DevWebTech", "DevAPI",
                  "DevGeneral"} -> 5
      [] cat \in {"Music", "Gaming", "Entertainment", "Reference", "Tools", "Health", "Travel",
                  "Food", "Sports"} -> 6
      [] cat = "Other" -> 7

\* bookmarks.rs:1481  the urls of the bookmarks file
ClassifierUrls ==
    {<<"h", "t", "t", "p", ":", "/", "/", "G", "i", "t", "H", "u", "b", ".", "c", "o", "m", "/", "a">>,
     <<"H", "T", "T", "P", ":", "/", "/", "a", "w", "s", ".", "A", "m", "a", "z", "o", "n", ".", "c", "o", "m">>,
     <<"f", "t", "p", ":", "/", "/", "S", "p", "o", "t", "i", "f", "y", ".", "c", "o", "m">>,
     <<"f", "t", "p", ":", "/", "/", "O", "p", "e", "n", "A", "I", ".", "c", "o", "m">>,
     <<"c", "h", "r", "o", "m", "e", ":", "/", "/", "x">>,
     <<"h", "t", "t", "p", "s", ":", "/", "/", "Y", "o", "u", "T", "u", "b", "e", ".", "c", "o", "m", "/", "w">>,
     <<"f", "t", "p", ":", "/", "/", "W", "i", "k", "i", "P", "e", "d", "i", "a", ".", "o", "r", "g">>,
     <<"f", "t", "p", ":", "/", "/", "B", "a", "n", "k", ".", "i", "o">>}

\* the words of the titles of the bookmarks file
TitleWords ==
    {<<"R", "A", "G">>,
     <<"H", "a", "b", "i", "t">>,
     <<"D", "o", "c", "k", "e", "r">>,
     <<"r", "e", "c", "i", "p", "e">>,
     <<"P", "y", "t", "h", "o", "n">>,
     <<"N", "E", "W", "S">>}

\* the words of a title, separated by blanks
RECURSIVE join(_)
join(ws) ==
    IF ws = <<>> THEN <<>>
    ELSE IF Len(ws) = 1 THEN ws[1]
    ELSE ws[1] \o <<" ">> \o join(Tail(ws))

Titles == {join(ws) : ws \in UNION {[1..n -> TitleWords] : n \in 0..MaxTitleWords}}

\* the spellings of a string: as typed, in capitals, in small letters
Spellings == {"typed", "upper", "lower"}

respell(v, cs) ==
    CASE v = "typed" -> cs
      [] v = "upper" -> to_uppercase(cs)
      [] v = "lower" -> to_lowercase(cs)

\* bookmarks.rs:1481  the bookmark is classified, in each spelling of its letters
classify ==
    /\ cpc = "call"
    /\ c_category' = [v \in Spellings |->
                         from_url_and_title(respell(v, c_url), respell(v, c_title))]
    /\ cpc' = "classified"
    /\ UNCHANGED <<c_url, c_title, cleanVars, bmVars, orgVars, pkgVars, parVars>>

InitClassifier ==
    /\ c_url \in ClassifierUrls
    /\ c_title \in Titles
    /\ c_category = <<>>
    /\ cpc = "call"
    /\ IdleClean
    /\ IdleBookmarks
    /\ IdleOrganize
    /\ IdlePackages
    /\ IdleParallel

NextClassifier == classify

SpecClassifier == InitClassifier /\ [][NextClassifier]_vars

(***************************************************************************)
(* Claims about the classifier, checked under SpecClassifier.              *)
(***************************************************************************)

\* the rules whose condition holds of the bookmark, by their place in the source
holding_rules ==
    LET url_lower == to_lowercase(c_url)
        combined == url_lower \o <<" ">> \o to_lowercase(c_title)
    IN  {i \in DOMAIN RuleOrder : rule_holds(RuleOrder[i], url_lower, combined)}

first_holding == CHOOSE i \in holding_rules : \A j \in holding_rules : i <= j

\* C12: from_url_and_title returns exactly one category for every url and
\* title; the category is that of the first rule in source order whose
\* condition holds of the lower-cased url and title, or Other when no rule
\* holds; no rule of an earlier block (AI/ML, Finance, Personal Development,
\* Shopping/Video/Social/News/Education, Development, the remaining general
\* categories) holds; and changing the case of the letters changes nothing.
C12_FirstMatchCascade ==
    cpc = "classified" =>
        /\ c_category["typed"] \in Range(RuleOrder) \cup {"Other"}
        /\ holding_rules = {} => c_category["typed"] = "Other"
        /\ holding_rules # {} => c_category["typed"] = RuleOrder[first_holding]
        /\ \A i \in holding_rules : block_rank(RuleOrder[i]) >= block_rank(c_category["typed"])
        /\ \A v \in Spellings : c_category[v] = c_category["typed"]

\* a bookmark typed with capitals of which rules of several blocks hold
C12_Witness ==
    /\ cpc = "classified"
    /\ c_url # to_lowercase(c_url)
    /\ c_title # to_lowercase(c_title)
    /\ Cardinality({block_rank(RuleOrder[i]) : i \in holding_rules}) >= 3
    /\ c_category["typed"] = "AIRAG"

(***************************************************************************)
(*        The parallel sections of cleaner.rs and bookmarks.rs             *)
(***************************************************************************)

\* the number of items of a par_iter
MaxItems == 2

\* bookmarks.rs:2029  current % 50 == 0
ProgressEvery == 50

\* the functions with a parallel section
Sections ==
    {"list_node_modules", "delete_with_live_updates", "delete_all_node_modules", "find_dead_links"}

\* the threads of the rayon pool that run the closure of the par_iter
Workers == {"w1", "w2"}

\* the workers, the thread started with thread::spawn, and the calling thread
Threads == Workers \cup {"display", "main"}

\* the type of each object behind an Arc
kind(obj) ==
    CASE obj \in {"completed", "deleted_count", "error_count", "checked", "dead_count"} -> "AtomicUsize"
      [] obj \in {"total_size_so_far", "freed_bytes"} -> "AtomicU64"
      [] obj = "done" -> "AtomicBool"
      [] obj \in {"current_path", "entries_arc"} -> "Mutex"

\* one step of a thread: what it does, to which object, on which branch
Op(o, obj, when) == [op |-> o, obj |-> obj, when |-> when]

\* the closure of the par_iter with no lock() around the writes
worker_program_unlocked(sec) ==
    CASE sec = "list_node_modules" ->
             <<Op("write", "current_path", "always"),
               Op("work", "calculate_dir_size", "always"),
               Op("fetch_add", "completed", "always"),
               Op("fetch_add", "total_size_so_far", "always")>>
      [] sec = "delete_with_live_updates" ->
             <<Op("write", "entries_arc", "always"),
               Op("work", "remove_directory", "always"),
               Op("write", "entries_arc", "always"),
               Op("fetch_add", "deleted_count", "ok"),
               Op("fetch_add", "freed_bytes", "ok")>>
      [] sec = "delete_all_node_modules" ->
             <<Op("write", "current_path", "always"),
               Op("work", "remove_directory", "always"),
               Op("fetch_add", "deleted_count", "ok"),
               Op("fetch_add", "error_count", "err")>>
      [] sec = "find_dead_links" ->
             <<Op("fetch_add", "checked", "always"),
               Op("load", "dead_count", "progress"),
               Op("work", "check_url_status", "always"),
               Op("fetch_add", "dead_count", "err")>>

\* the closure of the par_iter
\*   cleaner.rs:234-251 (list_node_modules), 516-541 (delete_with_live_updates),
\*   cleaner.rs:705-728 (delete_all_node_modules), bookmarks.rs:2024-2061 (find_dead_links)
worker_program(sec) ==
    CASE sec = "list_node_modules" ->
             <<Op("lock", "current_path", "always"),
               Op("write", "current_path", "always"),
               Op("unlock", "current_path", "always"),
               Op("work", "calculate_dir_size", "always"),
               Op("fetch_add", "completed", "always"),
               Op("fetch_add", "total_size_so_far", "always")>>
      [] sec = "delete_with_live_updates" ->
             <<Op("lock", "entries_arc", "always"),
               Op("write", "entries_arc", "always"),
               Op("unlock", "entries_arc", "always"),
               Op("work", "remove_directory", "always"),
               Op("lock", "entries_arc", "always"),
               Op("write", "entries_arc", "always"),
               Op("fetch_add", "deleted_count", "ok"),
               Op("fetch_add", "freed_bytes", "ok"),
               Op("unlock", "entries_arc", "always")>>
      [] sec = "delete_all_node_modules" ->
             <<Op("lock", "current_path", "always"),
               Op("write", "current_path", "always"),
               Op("unlock", "current_path", "always"),
               Op("work", "remove_directory", "always"),
               Op("fetch_add", "deleted_count", "ok"),
               Op("fetch_add", "error_count", "err")>>
      [] sec = "find_dead_links" ->
             <<Op("fetch_add", "checked", "always"),
               Op("load", "dead_count", "progress"),
               Op("work", "check_url_status", "always"),
               Op("fetch_add", "dead_count", "err")>>

\* the loop of the thread started with thread::spawn
\*   cleaner.rs:199-231, 461-509, 668-702
display_program(sec) ==
    CASE sec = "list_node_modules" ->
             <<Op("check_done", "done", "always"),
               Op("load", "completed", "always"),
               Op("load", "total_size_so_far", "always"),
               Op("lock", "current_path", "always"),
               Op("read", "current_path", "always"),
               Op("unlock", "current_path", "always"),
               Op("sleep", "thread", "always")>>
      [] sec = "delete_with_live_updates" ->
             <<Op("check_done", "done", "always"),
               Op("load", "deleted_count", "always"),
               Op("load", "freed_bytes", "always"),
               Op("lock", "entries_arc", "always"),
               Op("read", "entries_arc", "always"),
               Op("unlock", "entries_arc", "always"),
               Op("sleep", "thread", "always")>>
      [] sec = "delete_all_node_modules" ->
             <<Op("check_done", "done", "always"),
               Op("load", "deleted_count", "always"),
               Op("load", "error_count", "always"),
               Op("lock", "current_path", "always"),
               Op("read", "current_path", "always"),
               Op("unlock", "current_path", "always"),
               Op("sleep", "thread", "always")>>
      [] sec = "find_dead_links" -> <<>>

\* the calling thread, from the first thread::spawn or par_iter on
\*   cleaner.rs:199-255, 452-567, 668-734, bookmarks.rs:2023-2062
main_program(sec) ==
    CASE sec = "list_node_modules" ->
             <<Op("spawn", "thread", "always"),
               Op("par_iter", "node_modules_dirs", "always"),
               Op("store", "done", "always"),
               Op("join", "thread", "always")>>
      [] sec = "delete_with_live_updates" ->
             <<Op("lock", "entries_arc", "always"),
               Op("read", "entries_arc", "always"),
               Op("unlock", "entries_arc", "always"),
               Op("spawn", "thread", "always"),
               Op("lock", "entries_arc", "always"),
               Op("read", "entries_arc", "always"),
               Op("unlock", "entries_arc", "always"),
               Op("par_iter", "paths_to_delete", "always"),
               Op("store", "done", "always"),
               Op("join", "thread", "always"),
               Op("lock", "entries_arc", "always"),
               Op("read", "entries_arc", "always"),
               Op("unlock", "entries_arc", "always"),
               Op("load", "freed_bytes", "always"),
               Op("load", "deleted_count", "always")>>
      [] sec = "delete_all_node_modules" ->
             <<Op("spawn", "thread", "always"),
               Op("par_iter", "node_modules_dirs", "always"),
               Op("store", "done", "always"),
               Op("join", "thread", "always"),
               Op("load", "deleted_count", "always"),
               Op("load", "error_count", "always")>>
      [] sec = "find_dead_links" ->
             <<Op("par_iter", "bookmarks", "always")>>

program(t) ==
    CASE t \in Workers -> worker_program(section)
      [] t = "display" -> display_program(section)
      [] t = "main" -> main_program(section)

\* the objects behind an Arc and their values at construction
\*   cleaner.rs:188-191, 445-455, 657-660, bookmarks.rs:2014-2015
new_shared(sec) ==
    CASE sec = "list_node_modules" ->
             [completed |-> 0, total_size_so_far |-> 0, current_path |-> 0, done |-> FALSE]
      [] sec = "delete_with_live_updates" ->
             [entries_arc |-> [i \in 1..MaxItems |-> "Found"], deleted_count |-> 0,
              freed_bytes |-> 0, done |-> FALSE]
      [] sec = "delete_all_node_modules" ->
             [deleted_count |-> 0, error_count |-> 0, current_path |-> 0, done |-> FALSE]
      [] sec = "find_dead_links" ->
             [checked |-> 0, dead_count |-> 0]

par_frame == UNCHANGED <<cleanVars, bmVars, orgVars, pkgVars, catVars>>

cur(t) == program(t)[tpc[t]]

\* whether the branch the step is on is taken
applicable(t) ==
    CASE cur(t).when = "always" -> TRUE
      [] cur(t).when = "ok" -> w_ok[t]
      [] cur(t).when = "err" -> ~w_ok[t]
      [] cur(t).when = "progress" ->
             w_current[t] % ProgressEvery = 0 \/ w_current[t] = MaxItems

at(t, o) == tpc[t] \in DOMAIN program(t) /\ cur(t).op = o /\ applicable(t)

step(t) == tpc' = [tpc EXCEPT ![t] = @ + 1]

access(t, mode) ==
    [obj |-> cur(t).obj, thread |-> t, mode |-> mode, locked |-> holder = t]

\* rayon hands an item of the par_iter to a worker
take(w, i) ==
    /\ tpc["main"] \in DOMAIN program("main") /\ cur("main").op = "par_iter"
    /\ tpc[w] = 0
    /\ i \in queue
    /\ queue' = queue \ {i}
    /\ w_item' = [w_item EXCEPT ![w] = i]
    /\ tpc' = [tpc EXCEPT ![w] = 1]
    /\ UNCHANGED <<section, shared, holder, w_ok, w_current, accesses>>
    /\ par_frame

\* the closure returns
finish(w) ==
    /\ tpc[w] = Len(program(w)) + 1
    /\ tpc' = [tpc EXCEPT ![w] = 0]
    /\ w_item' = [w_item EXCEPT ![w] = 0]
    /\ UNCHANGED <<section, queue, shared, holder, w_ok, w_current, accesses>>
    /\ par_frame

\* Mutex::lock
lock(t) ==
    /\ at(t, "lock")
    /\ holder = "none"
    /\ holder' = t
    /\ step(t)
    /\ UNCHANGED <<section, queue, shared, w_item, w_ok, w_current, accesses>>
    /\ par_frame

\* the MutexGuard is dropped
unlock(t) ==
    /\ at(t, "unlock")
    /\ holder' = IF holder = t THEN "none" ELSE holder
    /\ step(t)
    /\ UNCHANGED <<section, queue, shared, w_item, w_ok, w_current, accesses>>
    /\ par_frame

\* cleaner.rs:237, 705  *current = path.display().to_string()
\* cleaner.rs:519, 529-536  entry.2 = CleanStatus::Deleting, Deleted or Error
mutex_write(w) ==
    /\ at(w, "write")
    /\ shared' =
          IF cur(w).obj = "current_path"
          THEN [shared EXCEPT !.current_path = w_item[w]]
          ELSE [shared EXCEPT !.entries_arc[w_item[w]] =
                    IF @ = "Found" THEN "Deleting"
                    ELSE IF w_ok[w] THEN "Deleted" ELSE "Error"]
    /\ accesses' = accesses \cup {access(w, "write")}
    /\ step(w)
    /\ UNCHANGED <<section, queue, holder, w_item, w_ok, w_current>>
    /\ par_frame

\* cleaner.rs:203-206, 488, 511-514, 555-565, 673  the value behind the mutex is read
mutex_read(t) ==
    /\ at(t, "read")
    /\ accesses' = accesses \cup {access(t, "read")}
    /\ step(t)
    /\ UNCHANGED <<section, queue, shared, holder, w_item, w_ok, w_current>>
    /\ par_frame

\* fetch_add on a counter: 1 on a count, the size of the directory (one byte
\* for each directory of the list up to it) on a number of bytes
fetch_add(w) ==
    /\ at(w, "fetch_add")
    /\ shared' = [shared EXCEPT ![cur(w).obj] =
                     @ + (IF kind(cur(w).obj) = "AtomicU64" THEN w_item[w] ELSE 1)]
    /\ w_current' = IF cur(w).obj = "checked"
                     THEN [w_current EXCEPT ![w] = shared.checked + 1]
                     ELSE w_current
    /\ accesses' = accesses \cup {access(w, "write")}
    /\ step(w)
    /\ UNCHANGED <<section, queue, holder, w_item, w_ok>>
    /\ par_frame

\* load of a counter
load(t) ==
    /\ at(t, "load")
    /\ accesses' = accesses \cup {access(t, "read")}
    /\ step(t)
    /\ UNCHANGED <<section, queue, shared, holder, w_item, w_ok, w_current>>
    /\ par_frame

\* cleaner.rs:201, 464, 670  while !done.load(Ordering::Relaxed)
check_done ==
    /\ at("display", "check_done")
    /\ accesses' = accesses \cup {access("display", "read")}
    /\ tpc' = [tpc EXCEPT !["display"] =
                  IF shared.done THEN Len(program("display")) + 1 ELSE @ + 1]
    /\ UNCHANGED <<section, queue, shared, holder, w_item, w_ok, w_current>>
    /\ par_frame

\* cleaner.rs:229, 508, 700  thread::sleep, then the loop starts again
sleep ==
    /\ at("display", "sleep")
    /\ tpc' = [tpc EXCEPT !["display"] = 1]
    /\ UNCHANGED <<section, queue, shared, holder, w_item, w_ok, w_current, accesses>>
    /\ par_frame

\* cleaner.rs:253, 543, 730  done.store(true, Ordering::Relaxed)
store ==
    /\ at("main", "store")
    /\ shared' = [shared EXCEPT !.done = TRUE]
    /\ accesses' = accesses \cup {access("main", "write")}
    /\ step("main")
    /\ UNCHANGED <<section, queue, holder, w_item, w_ok, w_current>>
    /\ par_frame

\* calculate_dir_size, remove_directory or check_url_status: no shared object
work(w, ok) ==
    /\ at(w, "work")
    /\ w_ok' = [w_ok EXCEPT ![w] = ok]
    /\ step(w)
    /\ UNCHANGED <<section, queue, shared, holder, w_item, w_current, accesses>>
    /\ par_frame

\* the branch the step is on is not taken
skip(t) ==
    /\ tpc[t] \in DOMAIN program(t)
    /\ ~applicable(t)
    /\ step(t)
    /\ UNCHANGED <<section, queue, shared, holder, w_item, w_ok, w_current, accesses>>
    /\ par_frame

\* cleaner.rs:199, 461, 668  thread::spawn
spawn ==
    /\ at("main", "spawn")
    /\ tpc' = [tpc EXCEPT !["main"] = @ + 1, !["display"] = 1]
    /\ UNCHANGED <<section, queue, shared, holder, w_item, w_ok, w_current, accesses>>
    /\ par_frame

\* the par_iter ends when every item has been processed
par_iter_end ==
    /\ at("main", "par_iter")
    /\ queue = {}
    /\ \A w \in Workers : tpc[w] = 0
    /\ step("main")
    /\ UNCHANGED <<section, queue, shared, holder, w_item, w_ok, w_current, accesses>>
    /\ par_frame

\* cleaner.rs:254, 544, 731  progress_handle.join()
join_display ==
    /\ at("main", "join")
    /\ tpc["display"] = Len(program("display")) + 1
    /\ step("main")
    /\ UNCHANGED <<section, queue, shared, holder, w_item, w_ok, w_current, accesses>>
    /\ par_frame

InitParallel ==
    /\ section \in Sections
    /\ queue = 1..MaxItems
    /\ shared = new_shared(section)
    /\ holder = "none"
    /\ tpc = [t \in Threads |-> IF t = "main" THEN 1 ELSE 0]
    /\ w_item = [w \in Workers |-> 0]
    /\ w_ok = [w \in Workers |-> TRUE]
    /\ w_current = [w \in Workers |-> 0]
    /\ accesses = {}
    /\ IdleClean
    /\ IdleBookmarks
    /\ IdleOrganize
    /\ IdlePackages
    /\ IdleClassifier

NextParallel ==
    \/ \E w \in Workers, i \in 1..MaxItems : take(w, i)
    \/ \E w \in Workers : finish(w)
    \/ \E t \in Threads : lock(t)
    \/ \E t \in Threads : unlock(t)
    \/ \E w \in Workers : mutex_write(w)
    \/ \E t \in Threads : mutex_read(t)
    \/ \E w \in Workers : fetch_add(w)
    \/ \E t \in Threads : load(t)
    \/ check_done
    \/ sleep
    \/ store
    \/ \E w \in Workers, ok \in BOOLEAN : work(w, ok)
    \/ \E t \in Threads : skip(t)
    \/ spawn
    \/ par_iter_end
    \/ join_display

SpecParallel == InitParallel /\ [][NextParallel]_vars

(***************************************************************************)
(* Claims about the parallel sections, checked under SpecParallel.         *)
(***************************************************************************)

\* the objects one thread has written and another thread has read or written
shared_mutable ==
    {a.obj : a \in {x \in accesses : x.mode = "write" /\
                        \E y \in accesses : y.obj = x.obj /\ y.thread # x.thread}}

\* C13: in the parallel sections no variable other than an atomic counter is
\* written by one thread and read or written by another.
C13_OnlyAtomicCountersShared ==
    \A obj \in shared_mutable : kind(obj) \in {"AtomicUsize", "AtomicU64"}

\* C13, amended: every variable written by one thread and read or written by
\* another is an atomic (a counter or the done flag) or lies behind a mutex
\* and is only read and written by the thread that holds the lock; in
\* find_dead_links these variables are atomic counters only.
C13_SharedStateIsAtomicOrLocked ==
    /\ \A obj \in shared_mutable :
          \/ kind(obj) \in {"AtomicUsize", "AtomicU64", "AtomicBool"}
          \/ /\ kind(obj) = "Mutex"
             /\ \A a \in accesses : a.obj = obj => a.locked
    /\ section = "find_dead_links" =>
          \A obj \in shared_mutable : kind(obj) = "AtomicUsize"

\* two workers have written the value behind the mutex, the display thread has
\* read it and the done flag the calling thread stored
C13_Witness ==
    /\ \E obj \in shared_mutable :
          /\ kind(obj) = "Mutex"
          /\ \A w \in Workers : \E a \in accesses : a.obj = obj /\ a.thread = w /\ a.mode = "write"
          /\ \E a \in accesses : a.obj = obj /\ a.thread = "display" /\ a.mode = "read"
    /\ "done" \in shared_mutable
    /\ tpc["main"] = Len(program("main")) + 1

(***************************************************************************)
(* Claims about the units of parallel work, checked under SpecClean.       *)
(***************************************************************************)

\* no path of the list is another path of the list or lies below one
independent(ps) ==
    \A i \in DOMAIN ps, j \in DOMAIN ps : i # j => ~IsPrefix(ps[i], ps[j])

\* the paths the workers of the running parallel deletion have not removed yet
pending_paths ==
    IF pc = "delete_all"
    THEN {node_modules_dirs[i] : i \in {k \in DOMAIN results : results[k] = "pending"}}
    ELSE IF pc = "deleting"
    THEN {entries_arc[i].path :
             i \in {k \in DOMAIN entries_arc : entries_arc[k].status \in {"Found", "Deleting"}}}
    ELSE {}

\* C14: the list find_node_modules produces never holds the same path twice
\* or two paths of which one is an ancestor of the other, so in every
\* interleaving no worker sizes or deletes a directory inside the subtree of
\* another worker: the directory of a worker that has not run yet is still
\* there, whatever the other workers have removed.
C14_WorkUnitsIndependent ==
    /\ independent(find_node_modules(root))
    /\ independent(node_modules_dirs)
    /\ independent([i \in DOMAIN entries |-> entries[i].path])
    /\ independent([i \in DOMAIN entries_arc |-> entries_arc[i].path])
    /\ \A p \in pending_paths : p \in dirs

\* two workers of delete_all_node_modules, one has removed its directory, the
\* other has not run yet
C14_Witness ==
    /\ pc = "delete_all"
    /\ Len(node_modules_dirs) >= 2
    /\ \E i \in DOMAIN results : results[i] = "Deleted"
    /\ pending_paths # {}

====
